---- MODULE Spec2Model ----
(***************************************************************************)
(* markdown-surgeon: section-addressable Markdown documents.               *)
(*                                                                         *)
(* A text is a sequence of one-character strings; a line is a text without *)
(* the line feed.  The parser (parser.ts), the identifier generator        *)
(* (hash.ts) and the commands of the CLI (cli.ts) are translated operator  *)
(* by operator; the JavaScript built-ins they call (split, join, trim,     *)
(* toLowerCase, startsWith, RegExp matching) are computed on characters.   *)
(***************************************************************************)
EXTENDS Integers, Sequences, FiniteSets, TLC

VARIABLES
    pc,      \* position of the modelled invocation
    file,    \* text of the Markdown file on disk
    doc,     \* Document returned by parseDocument (NoDoc before the call)
    query,   \* last getSectionEndLine call: [index, deep, result]
    prev,    \* text of the file when the command started
    cmd,     \* command invoked: [name, id, content, deep, before]
    out,     \* outcome of the command: error kind or MutationResult
    written, \* line array handed to serializeDocument by the command
    h1,      \* first sectionHash call: [level, title, occurrenceIndex, id]
    h2,      \* second sectionHash call
    procs    \* concurrent invocations: [pc, cmd, content, readAt, wroteAt]

vars == <<pc, file, doc, query, prev, cmd, out, written, h1, h2, procs>>

----------------------------------------------------------------------------
(* Bounds of the model *)

\* longest generated document, in lines, given to parseDocument
MaxLines == 3

\* longest generated document, in lines, given to the commands
MaxDocLines == 3

\* largest occurrenceIndex given to sectionHash directly
MaxOccurrence == 2

----------------------------------------------------------------------------
(* Characters and JavaScript string built-ins *)

NL == "\n"
CR == "\r"
TAB == "\t"

\* White space of String.prototype.trim and of the RegExp class \s
WhiteSpace == {" ", TAB, CR, NL}

\* Line terminators, which the RegExp atom . does not match
LineTerminators == {NL, CR}

UpperCase == <<"A","B","C","D","E","F","G","H","I","J","K","L","M",
               "N","O","P","Q","R","S","T","U","V","W","X","Y","Z">>
LowerCase == <<"a","b","c","d","e","f","g","h","i","j","k","l","m",
               "n","o","p","q","r","s","t","u","v","w","x","y","z">>

LowerChar(c) ==
    IF \E i \in 1..Len(UpperCase) : UpperCase[i] = c
    THEN LowerCase[CHOOSE i \in 1..Len(UpperCase) : UpperCase[i] = c]
    ELSE c

ToLowerCase(s) == [i \in 1..Len(s) |-> LowerChar(s[i])]

RECURSIVE TrimStart(_)
TrimStart(s) ==
    IF s # <<>> /\ Head(s) \in WhiteSpace THEN TrimStart(Tail(s)) ELSE s

RECURSIVE TrimEnd(_)
TrimEnd(s) ==
    IF s # <<>> /\ s[Len(s)] \in WhiteSpace
    THEN TrimEnd(SubSeq(s, 1, Len(s) - 1))
    ELSE s

Trim(s) == TrimEnd(TrimStart(s))

StartsWith(s, p) == Len(s) >= Len(p) /\ SubSeq(s, 1, Len(p)) = p

\* s.slice(from) and s.slice(from, to): 0-indexed, end exclusive, clamped
Slice(s, from, to) ==
    LET hi == IF to > Len(s) THEN Len(s) ELSE to
    IN  IF from >= hi THEN <<>> ELSE SubSeq(s, from + 1, hi)

SliceFrom(s, from) == Slice(s, from, Len(s))

\* content.split("\n")
RECURSIVE Split(_)
Split(t) ==
    IF \A i \in 1..Len(t) : t[i] # NL
    THEN <<t>>
    ELSE LET i == CHOOSE j \in 1..Len(t) :
                      t[j] = NL /\ \A k \in 1..(j - 1) : t[k] # NL
         IN  <<SubSeq(t, 1, i - 1)>> \o Split(SubSeq(t, i + 1, Len(t)))

\* lines.join("\n")
RECURSIVE Join(_)
Join(ls) ==
    IF ls = <<>> THEN <<>>
    ELSE IF Len(ls) = 1 THEN ls[1]
    ELSE ls[1] \o <<NL>> \o Join(Tail(ls))

Digits == <<"0","1","2","3","4","5","6","7","8","9">>

\* template-literal conversion of a non-negative integer
RECURSIVE NatToStr(_)
NatToStr(n) ==
    IF n < 10 THEN <<Digits[n + 1]>>
    ELSE NatToStr(n \div 10) \o <<Digits[(n % 10) + 1]>>

\* the characters of a text as one string
RECURSIVE StrOf(_)
StrOf(s) == IF s = <<>> THEN "" ELSE Head(s) \o StrOf(Tail(s))

----------------------------------------------------------------------------
(* hash.ts *)

\* crypto.subtle.digest("SHA-256", ...) in hexadecimal, cut to 8 characters,
\* tabulated for the inputs "<level>:<title>:<occurrenceIndex>" the model
\* can build
Sha256Table ==
    {
      <<"1::0", <<"0","3","2","c","e","9","f","f">>>>,
      <<"1::1", <<"a","1","7","5","6","5","b","b">>>>,
      <<"1::2", <<"a","7","e","2","0","2","3","a">>>>,
      <<"1::3", <<"5","0","3","7","a","8","2","7">>>>,
      <<"1::4", <<"5","8","f","5","3","8","7","5">>>>,
      <<"1::5", <<"b","8","5","8","b","7","6","c">>>>,
      <<"1::6", <<"d","9","1","5","0","2","3","8">>>>,
      <<"1::7", <<"d","7","9","3","e","e","f","b">>>>,
      <<"1:  Title  :0", <<"5","e","9","2","5","d","7","0">>>>,
      <<"1:  Title  :1", <<"4","5","b","d","0","2","9","c">>>>,
      <<"1:  Title  :2", <<"8","b","5","c","8","4","1","3">>>>,
      <<"1:  Title  :3", <<"4","1","c","2","5","e","d","e">>>>,
      <<"1:  Title  :4", <<"5","a","d","e","d","c","3","9">>>>,
      <<"1:  Title  :5", <<"a","3","c","7","a","5","3","4">>>>,
      <<"1:  Title  :6", <<"d","0","7","1","a","4","5","0">>>>,
      <<"1:  Title  :7", <<"9","3","9","1","9","9","5","c">>>>,
      <<"1:  title  :0", <<"7","3","5","c","0","3","5","b">>>>,
      <<"1:  title  :1", <<"7","6","f","b","3","5","6","3">>>>,
      <<"1:  title  :2", <<"6","a","a","9","c","6","0","d">>>>,
      <<"1:  title  :3", <<"2","1","7","a","1","2","9","5">>>>,
      <<"1:  title  :4", <<"1","a","5","4","6","e","7","6">>>>,
      <<"1:  title  :5", <<"3","c","e","1","4","7","d","5">>>>,
      <<"1:  title  :6", <<"2","0","6","5","e","5","0","b">>>>,
      <<"1:  title  :7", <<"8","c","3","7","3","e","d","d">>>>,
      <<"1: a :0", <<"e","b","6","7","8","8","4","1">>>>,
      <<"1: a :1", <<"4","7","4","5","2","c","e","3">>>>,
      <<"1: a :2", <<"c","f","9","b","5","1","7","3">>>>,
      <<"1: a :3", <<"4","2","2","0","e","d","e","3">>>>,
      <<"1: a :4", <<"8","2","1","0","1","2","c","6">>>>,
      <<"1: a :5", <<"7","3","3","1","f","e","9","0">>>>,
      <<"1: a :6", <<"7","f","0","3","b","d","7","e">>>>,
      <<"1: a :7", <<"2","4","9","c","e","3","b","f">>>>,
      <<"1:A:0", <<"3","0","8","7","8","4","b","9">>>>,
      <<"1:A:1", <<"a","f","b","a","a","7","c","5">>>>,
      <<"1:A:2", <<"c","a","9","a","2","0","6","6">>>>,
      <<"1:A:3", <<"d","e","3","6","8","7","f","d">>>>,
      <<"1:A:4", <<"3","2","e","c","d","5","e","8">>>>,
      <<"1:A:5", <<"8","2","c","d","a","9","e","a">>>>,
      <<"1:A:6", <<"c","0","8","9","b","8","b","3">>>>,
      <<"1:A:7", <<"2","2","b","b","9","4","3","f">>>>,
      <<"1:B:0", <<"b","7","c","e","d","8","b","a">>>>,
      <<"1:B:1", <<"4","5","b","c","4","1","9","0">>>>,
      <<"1:B:2", <<"6","1","2","d","b","0","4","5">>>>,
      <<"1:B:3", <<"8","d","c","a","5","d","8","8">>>>,
      <<"1:B:4", <<"2","9","b","5","4","e","1","e">>>>,
      <<"1:B:5", <<"7","c","1","b","8","a","e","8">>>>,
      <<"1:B:6", <<"f","e","d","c","5","d","e","0">>>>,
      <<"1:B:7", <<"3","4","c","7","7","6","1","8">>>>,
      <<"1:C:0", <<"c","a","b","f","9","4","5","0">>>>,
      <<"1:C:1", <<"9","9","b","2","d","f","e","5">>>>,
      <<"1:C:2", <<"d","4","f","e","8","8","0","e">>>>,
      <<"1:C:3", <<"6","4","7","8","6","e","6","3">>>>,
      <<"1:C:4", <<"c","a","4","9","0","e","b","a">>>>,
      <<"1:C:5", <<"e","3","8","6","5","b","e","3">>>>,
      <<"1:C:6", <<"8","2","7","a","d","c","6","c">>>>,
      <<"1:C:7", <<"6","5","a","3","3","e","9","2">>>>,
      <<"1:TITLE:0", <<"6","8","0","6","b","1","f","d">>>>,
      <<"1:TITLE:1", <<"5","8","9","6","8","0","1","4">>>>,
      <<"1:TITLE:2", <<"b","d","b","2","d","b","7","c">>>>,
      <<"1:TITLE:3", <<"b","2","8","7","4","1","4","b">>>>,
      <<"1:TITLE:4", <<"f","e","e","6","9","f","a","f">>>>,
      <<"1:TITLE:5", <<"b","5","2","c","7","b","c","b">>>>,
      <<"1:TITLE:6", <<"a","d","4","b","1","f","d","5">>>>,
      <<"1:TITLE:7", <<"6","a","a","c","c","e","0","4">>>>,
      <<"1:Title:0", <<"9","3","f","a","c","e","3","f">>>>,
      <<"1:Title:1", <<"e","8","b","f","d","6","b","a">>>>,
      <<"1:Title:2", <<"b","d","0","e","5","0","0","5">>>>,
      <<"1:Title:3", <<"6","0","6","9","c","3","1","3">>>>,
      <<"1:Title:4", <<"f","b","2","1","c","c","0","2">>>>,
      <<"1:Title:5", <<"2","1","8","6","0","4","e","c">>>>,
      <<"1:Title:6", <<"4","0","8","a","2","a","3","d">>>>,
      <<"1:Title:7", <<"4","0","4","9","d","6","a","6">>>>,
      <<"1:a:0", <<"4","8","8","7","b","b","d","6">>>>,
      <<"1:a:1", <<"4","a","b","f","5","e","f","4">>>>,
      <<"1:a:2", <<"b","9","0","f","d","b","a","e">>>>,
      <<"1:a:3", <<"e","c","7","b","0","9","c","1">>>>,
      <<"1:a:4", <<"2","9","0","e","3","b","6","7">>>>,
      <<"1:a:5", <<"5","6","7","a","a","8","f","4">>>>,
      <<"1:a:6", <<"c","9","b","8","f","e","2","b">>>>,
      <<"1:a:7", <<"c","6","b","9","4","4","a","f">>>>,
      <<"1:a :0", <<"4","a","0","f","7","e","7","d">>>>,
      <<"1:a :1", <<"8","2","e","f","5","6","3","a">>>>,
      <<"1:a :2", <<"f","2","6","f","5","d","1","c">>>>,
      <<"1:a :3", <<"d","5","d","7","7","3","1","a">>>>,
      <<"1:a :4", <<"8","5","d","3","5","f","4","1">>>>,
      <<"1:a :5", <<"7","c","2","a","9","0","9","a">>>>,
      <<"1:a :6", <<"7","8","f","a","f","2","b","f">>>>,
      <<"1:a :7", <<"d","f","4","d","7","5","9","d">>>>,
      <<"1:b:0", <<"3","0","8","3","2","6","2","a">>>>,
      <<"1:b:1", <<"c","0","3","9","9","2","8","2">>>>,
      <<"1:b:2", <<"c","1","8","0","5","e","f","e">>>>,
      <<"1:b:3", <<"f","a","5","f","a","b","3","0">>>>,
      <<"1:b:4", <<"3","e","0","b","3","3","1","1">>>>,
      <<"1:b:5", <<"a","6","e","8","3","f","0","1">>>>,
      <<"1:b:6", <<"3","c","d","f","4","0","a","8">>>>,
      <<"1:b:7", <<"a","5","5","6","1","6","f","6">>>>,
      <<"1:c:0", <<"f","4","9","0","d","7","c","1">>>>,
      <<"1:c:1", <<"7","f","6","c","0","5","5","8">>>>,
      <<"1:c:2", <<"7","2","1","a","f","2","3","5">>>>,
      <<"1:c:3", <<"b","d","a","7","2","e","b","d">>>>,
      <<"1:c:4", <<"0","b","b","9","6","c","f","a">>>>,
      <<"1:c:5", <<"7","9","c","e","4","6","e","6">>>>,
      <<"1:c:6", <<"e","0","3","8","9","8","2","9">>>>,
      <<"1:c:7", <<"e","2","d","2","0","3","b","3">>>>,
      <<"1:title:0", <<"f","f","e","c","1","a","5","8">>>>,
      <<"1:title:1", <<"0","f","3","5","6","d","1","0">>>>,
      <<"1:title:2", <<"b","b","c","c","3","4","3","4">>>>,
      <<"1:title:3", <<"e","1","2","7","3","5","1","4">>>>,
      <<"1:title:4", <<"a","7","7","7","1","e","f","1">>>>,
      <<"1:title:5", <<"c","f","2","e","c","f","0","4">>>>,
      <<"1:title:6", <<"1","a","e","0","f","0","0","f">>>>,
      <<"1:title:7", <<"7","5","b","f","c","d","d","a">>>>,
      <<"1:title  :0", <<"e","8","8","9","2","a","5","3">>>>,
      <<"1:title  :1", <<"3","3","1","8","c","9","6","a">>>>,
      <<"1:title  :2", <<"e","6","6","0","a","4","f","0">>>>,
      <<"1:title  :3", <<"f","9","9","5","4","7","d","1">>>>,
      <<"1:title  :4", <<"e","1","a","b","7","b","0","f">>>>,
      <<"1:title  :5", <<"5","d","f","2","e","d","e","1">>>>,
      <<"1:title  :6", <<"d","a","7","b","5","d","b","9">>>>,
      <<"1:title  :7", <<"a","a","7","f","a","3","7","c">>>>,
      <<"2::0", <<"8","d","a","c","2","c","6","5">>>>,
      <<"2::1", <<"0","6","d","0","7","d","c","4">>>>,
      <<"2::2", <<"9","4","3","9","8","1","d","e">>>>,
      <<"2::3", <<"0","8","7","5","b","8","d","c">>>>,
      <<"2::4", <<"2","6","f","f","0","f","a","6">>>>,
      <<"2::5", <<"9","9","a","f","a","3","e","7">>>>,
      <<"2::6", <<"4","5","b","2","5","6","4","5">>>>,
      <<"2::7", <<"8","c","c","a","b","6","1","9">>>>,
      <<"2:  Title  :0", <<"3","4","d","6","2","1","7","c">>>>,
      <<"2:  Title  :1", <<"b","5","0","4","3","7","f","2">>>>,
      <<"2:  Title  :2", <<"2","6","2","d","e","d","d","6">>>>,
      <<"2:  Title  :3", <<"9","a","a","2","8","9","9","f">>>>,
      <<"2:  Title  :4", <<"b","e","a","0","2","3","d","6">>>>,
      <<"2:  Title  :5", <<"5","a","d","d","6","9","b","e">>>>,
      <<"2:  Title  :6", <<"2","b","4","3","a","f","f","2">>>>,
      <<"2:  Title  :7", <<"c","8","1","e","6","9","5","3">>>>,
      <<"2:  title  :0", <<"d","9","a","4","2","5","c","f">>>>,
      <<"2:  title  :1", <<"e","a","6","1","d","8","f","8">>>>,
      <<"2:  title  :2", <<"7","e","d","2","8","2","6","0">>>>,
      <<"2:  title  :3", <<"f","a","1","3","1","c","7","0">>>>,
      <<"2:  title  :4", <<"5","7","0","5","4","5","a","4">>>>,
      <<"2:  title  :5", <<"2","7","c","f","2","e","c","1">>>>,
      <<"2:  title  :6", <<"3","4","e","2","5","b","a","7">>>>,
      <<"2:  title  :7", <<"c","9","0","f","c","f","f","a">>>>,
      <<"2: a :0", <<"d","b","3","e","0","c","0","b">>>>,
      <<"2: a :1", <<"c","4","c","4","b","9","b","9">>>>,
      <<"2: a :2", <<"3","e","c","8","2","6","a","3">>>>,
      <<"2: a :3", <<"c","5","1","e","b","c","f","8">>>>,
      <<"2: a :4", <<"b","2","f","f","0","7","4","6">>>>,
      <<"2: a :5", <<"1","0","4","3","7","4","c","e">>>>,
      <<"2: a :6", <<"4","d","e","7","4","e","7","d">>>>,
      <<"2: a :7", <<"f","e","0","9","7","3","d","4">>>>,
      <<"2:A:0", <<"e","b","6","c","3","8","c","f">>>>,
      <<"2:A:1", <<"6","d","1","2","5","8","1","2">>>>,
      <<"2:A:2", <<"3","e","6","0","7","8","3","c">>>>,
      <<"2:A:3", <<"7","5","b","7","f","2","7","9">>>>,
      <<"2:A:4", <<"f","f","f","d","4","e","1","7">>>>,
      <<"2:A:5", <<"3","7","d","1","a","6","c","a">>>>,
      <<"2:A:6", <<"7","3","d","9","5","3","1","5">>>>,
      <<"2:A:7", <<"b","9","2","4","c","8","d","e">>>>,
      <<"2:B:0", <<"b","9","9","7","2","a","8","0">>>>,
      <<"2:B:1", <<"0","9","6","b","3","0","f","b">>>>,
      <<"2:B:2", <<"9","5","0","2","3","6","4","d">>>>,
      <<"2:B:3", <<"c","6","a","8","c","9","d","2">>>>,
      <<"2:B:4", <<"0","f","1","8","c","7","9","2">>>>,
      <<"2:B:5", <<"2","8","b","f","7","3","8","3">>>>,
      <<"2:B:6", <<"6","f","9","f","6","0","2","8">>>>,
      <<"2:B:7", <<"b","b","9","f","1","8","9","6">>>>,
      <<"2:C:0", <<"c","a","d","b","9","5","1","9">>>>,
      <<"2:C:1", <<"f","4","8","0","c","8","3","d">>>>,
      <<"2:C:2", <<"f","2","6","a","4","b","4","8">>>>,
      <<"2:C:3", <<"b","a","5","f","1","8","7","7">>>>,
      <<"2:C:4", <<"e","e","7","6","3","0","a","1">>>>,
      <<"2:C:5", <<"a","2","5","1","d","0","3","b">>>>,
      <<"2:C:6", <<"1","2","a","1","0","0","0","0">>>>,
      <<"2:C:7", <<"6","1","c","c","3","f","e","2">>>>,
      <<"2:TITLE:0", <<"e","f","a","6","b","5","3","7">>>>,
      <<"2:TITLE:1", <<"3","d","d","f","a","8","f","2">>>>,
      <<"2:TITLE:2", <<"0","f","c","d","7","3","a","2">>>>,
      <<"2:TITLE:3", <<"2","b","c","9","4","b","8","6">>>>,
      <<"2:TITLE:4", <<"f","8","d","f","8","f","6","5">>>>,
      <<"2:TITLE:5", <<"b","b","2","e","5","c","0","e">>>>,
      <<"2:TITLE:6", <<"8","4","b","7","2","4","a","2">>>>,
      <<"2:TITLE:7", <<"3","9","1","d","2","5","7","0">>>>,
      <<"2:Title:0", <<"8","a","0","c","8","8","3","d">>>>,
      <<"2:Title:1", <<"4","f","b","f","3","7","4","1">>>>,
      <<"2:Title:2", <<"7","0","9","9","a","1","2","d">>>>,
      <<"2:Title:3", <<"8","d","4","3","1","d","f","c">>>>,
      <<"2:Title:4", <<"0","8","5","d","0","0","3","3">>>>,
      <<"2:Title:5", <<"9","a","5","7","d","1","0","d">>>>,
      <<"2:Title:6", <<"5","0","7","d","8","2","6","c">>>>,
      <<"2:Title:7", <<"e","e","a","f","f","a","e","d">>>>,
      <<"2:a:0", <<"b","1","5","3","8","0","2","6">>>>,
      <<"2:a:1", <<"7","3","7","d","a","5","e","1">>>>,
      <<"2:a:2", <<"8","9","9","8","e","8","a","1">>>>,
      <<"2:a:3", <<"a","7","9","7","0","1","c","5">>>>,
      <<"2:a:4", <<"3","b","6","9","8","7","8","2">>>>,
      <<"2:a:5", <<"f","c","4","1","8","e","4","9">>>>,
      <<"2:a:6", <<"a","7","3","c","5","6","a","2">>>>,
      <<"2:a:7", <<"9","d","a","d","9","d","2","7">>>>,
      <<"2:a :0", <<"0","a","1","0","e","5","7","4">>>>,
      <<"2:a :1", <<"4","5","c","3","4","f","7","b">>>>,
      <<"2:a :2", <<"6","4","a","7","d","f","c","9">>>>,
      <<"2:a :3", <<"5","c","2","3","6","0","d","3">>>>,
      <<"2:a :4", <<"a","5","3","b","7","a","b","3">>>>,
      <<"2:a :5", <<"1","c","5","9","1","7","1","a">>>>,
      <<"2:a :6", <<"c","0","f","9","d","e","7","1">>>>,
      <<"2:a :7", <<"d","8","b","f","c","1","8","c">>>>,
      <<"2:b:0", <<"7","6","8","4","a","0","e","4">>>>,
      <<"2:b:1", <<"b","c","4","9","3","5","c","a">>>>,
      <<"2:b:2", <<"8","3","1","b","8","b","c","2">>>>,
      <<"2:b:3", <<"d","b","a","7","d","0","e","1">>>>,
      <<"2:b:4", <<"8","e","e","0","9","6","0","2">>>>,
      <<"2:b:5", <<"4","b","c","c","6","b","d","d">>>>,
      <<"2:b:6", <<"7","6","d","a","b","9","5","4">>>>,
      <<"2:b:7", <<"4","b","9","2","9","d","9","6">>>>,
      <<"2:c:0", <<"7","0","b","9","6","6","5","2">>>>,
      <<"2:c:1", <<"d","c","7","7","7","f","5","b">>>>,
      <<"2:c:2", <<"0","7","8","a","2","2","7","4">>>>,
      <<"2:c:3", <<"c","3","7","c","4","1","b","2">>>>,
      <<"2:c:4", <<"9","d","c","a","3","0","9","7">>>>,
      <<"2:c:5", <<"c","1","c","6","0","c","c","b">>>>,
      <<"2:c:6", <<"3","5","7","8","9","f","4","f">>>>,
      <<"2:c:7", <<"2","a","5","3","8","b","7","b">>>>,
      <<"2:title:0", <<"3","b","f","a","d","9","1","7">>>>,
      <<"2:title:1", <<"8","e","e","5","f","8","d","b">>>>,
      <<"2:title:2", <<"9","8","5","0","d","8","1","9">>>>,
      <<"2:title:3", <<"0","d","9","1","6","7","5","8">>>>,
      <<"2:title:4", <<"f","e","a","0","7","7","3","6">>>>,
      <<"2:title:5", <<"9","6","5","d","7","6","6","2">>>>,
      <<"2:title:6", <<"a","7","b","f","b","5","a","8">>>>,
      <<"2:title:7", <<"b","c","8","0","7","a","7","c">>>>,
      <<"2:title  :0", <<"e","3","4","f","7","9","b","1">>>>,
      <<"2:title  :1", <<"5","6","8","6","8","8","6","b">>>>,
      <<"2:title  :2", <<"e","b","b","3","b","7","3","7">>>>,
      <<"2:title  :3", <<"5","b","3","d","a","1","7","d">>>>,
      <<"2:title  :4", <<"3","9","a","b","b","0","1","4">>>>,
      <<"2:title  :5", <<"b","d","7","3","2","8","9","f">>>>,
      <<"2:title  :6", <<"0","5","b","e","b","4","5","7">>>>,
      <<"2:title  :7", <<"0","d","5","0","c","e","2","5">>>>,
      <<"3::0", <<"d","3","b","6","2","6","e","d">>>>,
      <<"3::1", <<"6","3","d","f","9","0","1","5">>>>,
      <<"3::2", <<"2","2","3","c","a","b","a","a">>>>,
      <<"3::3", <<"0","c","d","2","d","2","9","e">>>>,
      <<"3::4", <<"9","0","3","c","8","a","6","3">>>>,
      <<"3::5", <<"6","7","8","7","c","3","6","8">>>>,
      <<"3::6", <<"e","7","1","0","4","1","5","f">>>>,
      <<"3::7", <<"e","8","f","0","a","2","4","5">>>>,
      <<"3:  Title  :0", <<"0","1","0","6","2","1","a","6">>>>,
      <<"3:  Title  :1", <<"8","0","d","1","6","e","3","8">>>>,
      <<"3:  Title  :2", <<"4","f","e","3","e","0","0","e">>>>,
      <<"3:  Title  :3", <<"b","d","b","f","4","4","3","f">>>>,
      <<"3:  Title  :4", <<"7","4","a","d","5","e","5","c">>>>,
      <<"3:  Title  :5", <<"2","a","d","b","3","4","5","b">>>>,
      <<"3:  Title  :6", <<"b","1","6","8","d","a","f","d">>>>,
      <<"3:  Title  :7", <<"c","5","4","a","9","4","e","7">>>>,
      <<"3:  title  :0", <<"7","e","8","9","c","8","d","1">>>>,
      <<"3:  title  :1", <<"2","7","b","1","e","9","c","7">>>>,
      <<"3:  title  :2", <<"f","2","2","0","d","8","9","7">>>>,
      <<"3:  title  :3", <<"e","8","8","9","e","7","c","d">>>>,
      <<"3:  title  :4", <<"b","d","b","5","3","0","9","8">>>>,
      <<"3:  title  :5", <<"a","a","b","1","e","6","b","4">>>>,
      <<"3:  title  :6", <<"1","a","7","4","d","1","9","f">>>>,
      <<"3:  title  :7", <<"1","6","6","3","e","e","7","4">>>>,
      <<"3: a :0", <<"c","3","9","4","d","b","3","8">>>>,
      <<"3: a :1", <<"c","c","e","e","9","5","3","0">>>>,
      <<"3: a :2", <<"d","9","c","9","2","9","a","a">>>>,
      <<"3: a :3", <<"d","7","e","5","b","b","b","2">>>>,
      <<"3: a :4", <<"a","0","e","2","6","a","7","8">>>>,
      <<"3: a :5", <<"0","3","3","6","a","a","9","f">>>>,
      <<"3: a :6", <<"8","2","1","5","9","6","0","6">>>>,
      <<"3: a :7", <<"0","b","1","2","d","e","c","f">>>>,
      <<"3:A:0", <<"0","a","9","5","3","c","0","6">>>>,
      <<"3:A:1", <<"d","7","a","4","0","6","f","b">>>>,
      <<"3:A:2", <<"6","0","e","4","4","5","8","2">>>>,
      <<"3:A:3", <<"0","b","5","2","c","7","6","d">>>>,
      <<"3:A:4", <<"c","a","3","2","e","d","b","9">>>>,
      <<"3:A:5", <<"4","8","a","1","0","4","7","b">>>>,
      <<"3:A:6", <<"6","4","d","8","9","c","9","a">>>>,
      <<"3:A:7", <<"9","8","6","5","0","f","5","d">>>>,
      <<"3:B:0", <<"d","a","e","a","b","7","f","d">>>>,
      <<"3:B:1", <<"9","5","c","8","3","2","1","c">>>>,
      <<"3:B:2", <<"c","9","e","9","b","f","7","0">>>>,
      <<"3:B:3", <<"4","e","0","4","8","1","8","b">>>>,
      <<"3:B:4", <<"e","f","1","c","5","a","3","8">>>>,
      <<"3:B:5", <<"1","f","e","6","f","5","b","7">>>>,
      <<"3:B:6", <<"9","5","7","d","5","8","b","f">>>>,
      <<"3:B:7", <<"c","c","2","c","4","3","e","e">>>>,
      <<"3:C:0", <<"6","c","9","4","b","5","2","3">>>>,
      <<"3:C:1", <<"9","8","e","e","f","4","c","b">>>>,
      <<"3:C:2", <<"8","e","6","d","1","5","2","f">>>>,
      <<"3:C:3", <<"f","d","8","d","a","d","7","a">>>>,
      <<"3:C:4", <<"d","3","e","3","7","f","0","1">>>>,
      <<"3:C:5", <<"9","4","2","8","7","b","5","2">>>>,
      <<"3:C:6", <<"c","a","8","d","1","0","d","1">>>>,
      <<"3:C:7", <<"0","9","8","d","2","d","0","c">>>>,
      <<"3:TITLE:0", <<"4","1","f","0","8","0","1","f">>>>,
      <<"3:TITLE:1", <<"1","b","2","6","7","7","9","a">>>>,
      <<"3:TITLE:2", <<"3","5","3","0","1","3","6","0">>>>,
      <<"3:TITLE:3", <<"4","7","e","f","7","5","a","d">>>>,
      <<"3:TITLE:4", <<"5","0","0","e","9","4","4","d">>>>,
      <<"3:TITLE:5", <<"3","f","c","8","d","3","d","5">>>>,
      <<"3:TITLE:6", <<"7","8","1","2","6","7","f","4">>>>,
      <<"3:TITLE:7", <<"a","9","4","5","5","e","7","c">>>>,
      <<"3:Title:0", <<"3","4","6","5","d","6","b","4">>>>,
      <<"3:Title:1", <<"b","6","4","3","b","8","c","e">>>>,
      <<"3:Title:2", <<"e","4","d","9","1","7","4","b">>>>,
      <<"3:Title:3", <<"2","c","1","a","8","6","6","7">>>>,
      <<"3:Title:4", <<"e","6","f","b","b","1","d","1">>>>,
      <<"3:Title:5", <<"0","2","0","4","9","8","8","3">>>>,
      <<"3:Title:6", <<"f","9","4","8","1","0","f","0">>>>,
      <<"3:Title:7", <<"8","e","d","a","7","6","2","d">>>>,
      <<"3:a:0", <<"e","f","4","4","a","d","0","7">>>>,
      <<"3:a:1", <<"7","0","5","e","8","b","e","7">>>>,
      <<"3:a:2", <<"8","2","b","4","6","f","0","a">>>>,
      <<"3:a:3", <<"a","9","6","4","5","6","7","1">>>>,
      <<"3:a:4", <<"2","7","9","1","7","e","a","e">>>>,
      <<"3:a:5", <<"d","2","e","2","a","6","b","8">>>>,
      <<"3:a:6", <<"d","3","8","7","3","9","b","f">>>>,
      <<"3:a:7", <<"2","0","7","5","4","3","e","0">>>>,
      <<"3:a :0", <<"8","1","2","b","8","0","8","8">>>>,
      <<"3:a :1", <<"f","0","5","5","d","3","0","b">>>>,
      <<"3:a :2", <<"7","f","a","b","d","e","f","7">>>>,
      <<"3:a :3", <<"0","0","6","3","6","f","8","6">>>>,
      <<"3:a :4", <<"6","5","b","7","c","a","7","2">>>>,
      <<"3:a :5", <<"0","5","5","f","5","1","2","6">>>>,
      <<"3:a :6", <<"0","2","2","5","9","b","4","6">>>>,
      <<"3:a :7", <<"0","3","a","d","4","8","d","d">>>>,
      <<"3:b:0", <<"6","2","d","4","b","9","5","7">>>>,
      <<"3:b:1", <<"e","7","a","2","b","8","b","a">>>>,
      <<"3:b:2", <<"b","d","2","e","7","0","f","d">>>>,
      <<"3:b:3", <<"2","1","2","7","b","7","1","9">>>>,
      <<"3:b:4", <<"a","3","0","4","2","b","c","a">>>>,
      <<"3:b:5", <<"b","4","f","2","f","4","e","c">>>>,
      <<"3:b:6", <<"2","8","7","2","9","7","e","a">>>>,
      <<"3:b:7", <<"6","c","d","d","3","7","2","8">>>>,
      <<"3:c:0", <<"1","f","2","9","6","e","b","e">>>>,
      <<"3:c:1", <<"d","5","b","a","0","f","6","b">>>>,
      <<"3:c:2", <<"4","8","2","3","4","5","6","d">>>>,
      <<"3:c:3", <<"b","2","6","f","a","2","6","d">>>>,
      <<"3:c:4", <<"5","a","3","5","3","b","d","d">>>>,
      <<"3:c:5", <<"7","8","3","5","8","5","b","4">>>>,
      <<"3:c:6", <<"0","a","8","8","e","5","e","9">>>>,
      <<"3:c:7", <<"4","b","1","3","0","3","d","a">>>>,
      <<"3:title:0", <<"7","2","3","e","7","f","b","6">>>>,
      <<"3:title:1", <<"f","c","e","3","8","1","3","f">>>>,
      <<"3:title:2", <<"9","0","3","2","8","3","1","4">>>>,
      <<"3:title:3", <<"e","9","4","d","6","9","5","b">>>>,
      <<"3:title:4", <<"6","1","7","9","4","e","8","e">>>>,
      <<"3:title:5", <<"c","e","a","5","d","5","3","3">>>>,
      <<"3:title:6", <<"6","1","b","d","5","2","6","e">>>>,
      <<"3:title:7", <<"1","9","9","0","4","1","f","7">>>>,
      <<"3:title  :0", <<"8","2","6","3","5","8","f","9">>>>,
      <<"3:title  :1", <<"d","6","2","3","f","4","1","4">>>>,
      <<"3:title  :2", <<"5","6","1","1","b","d","0","d">>>>,
      <<"3:title  :3", <<"f","6","2","5","2","5","e","4">>>>,
      <<"3:title  :4", <<"f","2","2","f","0","0","b","6">>>>,
      <<"3:title  :5", <<"8","f","3","9","3","5","b","9">>>>,
      <<"3:title  :6", <<"f","6","b","8","a","b","b","5">>>>,
      <<"3:title  :7", <<"2","5","e","c","3","5","7","0">>>>,
      <<"4::0", <<"2","a","6","2","4","0","7","5">>>>,
      <<"4::1", <<"e","4","e","2","c","c","3","d">>>>,
      <<"4::2", <<"b","c","7","4","b","a","3","9">>>>,
      <<"4::3", <<"7","c","e","b","4","6","a","9">>>>,
      <<"4::4", <<"1","0","a","a","6","d","2","c">>>>,
      <<"4::5", <<"f","c","5","1","a","c","7","6">>>>,
      <<"4::6", <<"c","6","e","7","5","a","c","a">>>>,
      <<"4::7", <<"0","1","3","9","2","b","1","f">>>>,
      <<"4:  Title  :0", <<"b","0","e","8","f","4","4","4">>>>,
      <<"4:  Title  :1", <<"3","0","b","6","8","1","2","e">>>>,
      <<"4:  Title  :2", <<"a","6","7","9","8","a","7","d">>>>,
      <<"4:  Title  :3", <<"7","d","9","1","a","6","8","e">>>>,
      <<"4:  Title  :4", <<"1","0","f","4","0","d","c","2">>>>,
      <<"4:  Title  :5", <<"f","0","2","3","8","6","d","f">>>>,
      <<"4:  Title  :6", <<"f","4","f","c","5","b","2","2">>>>,
      <<"4:  Title  :7", <<"b","8","1","5","f","b","f","e">>>>,
      <<"4:  title  :0", <<"e","6","6","b","e","0","d","d">>>>,
      <<"4:  title  :1", <<"1","6","a","e","2","b","0","d">>>>,
      <<"4:  title  :2", <<"1","d","b","0","4","d","e","f">>>>,
      <<"4:  title  :3", <<"0","7","c","6","3","7","a","9">>>>,
      <<"4:  title  :4", <<"d","6","6","c","2","2","c","c">>>>,
      <<"4:  title  :5", <<"1","1","e","1","d","9","0","3">>>>,
      <<"4:  title  :6", <<"3","c","7","a","1","2","6","2">>>>,
      <<"4:  title  :7", <<"b","6","d","e","7","8","8","3">>>>,
      <<"4: a :0", <<"e","e","c","5","a","b","f","d">>>>,
      <<"4: a :1", <<"f","e","f","4","b","0","b","b">>>>,
      <<"4: a :2", <<"c","3","8","e","e","e","8","4">>>>,
      <<"4: a :3", <<"5","6","0","b","7","4","8","1">>>>,
      <<"4: a :4", <<"4","f","2","1","e","c","4","8">>>>,
      <<"4: a :5", <<"9","d","4","a","b","2","7","5">>>>,
      <<"4: a :6", <<"8","1","7","b","f","7","e","8">>>>,
      <<"4: a :7", <<"9","b","d","f","9","2","8","d">>>>,
      <<"4:A:0", <<"0","4","d","0","0","c","0","0">>>>,
      <<"4:A:1", <<"5","1","f","7","4","4","7","7">>>>,
      <<"4:A:2", <<"7","8","4","9","b","b","f","1">>>>,
      <<"4:A:3", <<"2","e","4","9","d","f","0","e">>>>,
      <<"4:A:4", <<"f","3","f","8","e","c","1","2">>>>,
      <<"4:A:5", <<"e","5","e","b","d","9","0","a">>>>,
      <<"4:A:6", <<"5","b","9","5","a","5","6","5">>>>,
      <<"4:A:7", <<"5","c","0","6","4","0","7","d">>>>,
      <<"4:B:0", <<"9","d","7","9","4","f","a","1">>>>,
      <<"4:B:1", <<"7","e","a","7","b","4","e","1">>>>,
      <<"4:B:2", <<"7","2","7","1","5","c","9","2">>>>,
      <<"4:B:3", <<"7","3","f","1","4","b","d","c">>>>,
      <<"4:B:4", <<"5","a","c","1","0","f","7","7">>>>,
      <<"4:B:5", <<"1","3","3","f","7","6","1","d">>>>,
      <<"4:B:6", <<"0","6","0","d","6","9","c","7">>>>,
      <<"4:B:7", <<"4","a","f","b","d","1","7","0">>>>,
      <<"4:C:0", <<"4","c","9","5","d","5","d","a">>>>,
      <<"4:C:1", <<"8","0","8","2","2","a","b","7">>>>,
      <<"4:C:2", <<"5","5","5","e","1","b","8","6">>>>,
      <<"4:C:3", <<"3","7","4","a","d","8","1","6">>>>,
      <<"4:C:4", <<"c","0","5","9","2","a","b","3">>>>,
      <<"4:C:5", <<"a","b","8","1","4","b","1","4">>>>,
      <<"4:C:6", <<"f","1","1","b","a","9","7","9">>>>,
      <<"4:C:7", <<"6","c","6","9","0","8","d","a">>>>,
      <<"4:TITLE:0", <<"2","0","1","e","7","e","8","c">>>>,
      <<"4:TITLE:1", <<"9","9","3","5","7","a","d","0">>>>,
      <<"4:TITLE:2", <<"1","2","e","c","f","5","9","a">>>>,
      <<"4:TITLE:3", <<"6","4","9","1","d","9","f","7">>>>,
      <<"4:TITLE:4", <<"8","b","e","e","9","0","5","6">>>>,
      <<"4:TITLE:5", <<"b","8","6","0","6","2","6","c">>>>,
      <<"4:TITLE:6", <<"3","1","f","b","2","4","2","d">>>>,
      <<"4:TITLE:7", <<"c","1","c","d","b","d","0","5">>>>,
      <<"4:Title:0", <<"6","3","f","e","a","5","c","a">>>>,
      <<"4:Title:1", <<"2","e","7","a","6","7","e","d">>>>,
      <<"4:Title:2", <<"4","a","2","0","5","9","1","9">>>>,
      <<"4:Title:3", <<"0","1","6","2","7","3","8","d">>>>,
      <<"4:Title:4", <<"2","0","2","f","5","6","1","6">>>>,
      <<"4:Title:5", <<"7","f","3","5","7","0","a","c">>>>,
      <<"4:Title:6", <<"f","9","7","9","b","a","4","9">>>>,
      <<"4:Title:7", <<"d","5","a","5","b","6","3","e">>>>,
      <<"4:a:0", <<"8","2","e","a","c","5","a","4">>>>,
      <<"4:a:1", <<"1","a","6","a","6","3","8","b">>>>,
      <<"4:a:2", <<"a","8","c","c","7","e","d","6">>>>,
      <<"4:a:3", <<"3","1","8","b","d","7","c","c">>>>,
      <<"4:a:4", <<"6","b","0","e","8","4","6","d">>>>,
      <<"4:a:5", <<"6","b","1","4","9","3","5","8">>>>,
      <<"4:a:6", <<"3","b","e","d","d","7","3","a">>>>,
      <<"4:a:7", <<"3","0","9","e","f","6","4","1">>>>,
      <<"4:a :0", <<"2","1","6","a","4","b","1","2">>>>,
      <<"4:a :1", <<"c","8","3","7","3","8","4","6">>>>,
      <<"4:a :2", <<"4","b","7","7","c","a","5","6">>>>,
      <<"4:a :3", <<"0","1","6","d","8","2","6","b">>>>,
      <<"4:a :4", <<"c","5","0","a","a","1","e","6">>>>,
      <<"4:a :5", <<"9","8","9","f","8","f","2","4">>>>,
      <<"4:a :6", <<"f","5","9","0","e","6","1","a">>>>,
      <<"4:a :7", <<"4","c","9","c","1","2","8","2">>>>,
      <<"4:b:0", <<"a","b","e","d","e","7","8","5">>>>,
      <<"4:b:1", <<"4","9","b","4","7","c","c","b">>>>,
      <<"4:b:2", <<"f","4","0","7","6","f","4","8">>>>,
      <<"4:b:3", <<"a","f","2","9","d","d","b","6">>>>,
      <<"4:b:4", <<"1","b","2","c","c","1","5","2">>>>,
      <<"4:b:5", <<"9","c","d","6","f","7","9","0">>>>,
      <<"4:b:6", <<"0","2","e","1","4","3","3","0">>>>,
      <<"4:b:7", <<"f","3","9","9","e","8","a","6">>>>,
      <<"4:c:0", <<"8","0","c","0","b","3","4","4">>>>,
      <<"4:c:1", <<"d","e","e","2","7","0","1","4">>>>,
      <<"4:c:2", <<"5","d","c","3","c","7","4","5">>>>,
      <<"4:c:3", <<"6","8","6","b","0","4","d","c">>>>,
      <<"4:c:4", <<"9","3","8","b","7","f","f","e">>>>,
      <<"4:c:5", <<"f","9","e","a","3","1","f","9">>>>,
      <<"4:c:6", <<"a","0","6","d","a","b","8","3">>>>,
      <<"4:c:7", <<"6","0","7","5","e","d","d","c">>>>,
      <<"4:title:0", <<"f","4","3","a","3","d","2","1">>>>,
      <<"4:title:1", <<"6","b","9","6","8","8","a","4">>>>,
      <<"4:title:2", <<"3","f","6","d","a","3","7","8">>>>,
      <<"4:title:3", <<"1","a","f","d","4","b","d","4">>>>,
      <<"4:title:4", <<"1","3","1","7","0","d","b","7">>>>,
      <<"4:title:5", <<"6","4","d","a","5","c","1","c">>>>,
      <<"4:title:6", <<"1","c","c","3","2","1","a","f">>>>,
      <<"4:title:7", <<"d","1","0","9","3","b","d","1">>>>,
      <<"4:title  :0", <<"6","2","1","8","a","c","6","c">>>>,
      <<"4:title  :1", <<"5","d","7","e","1","8","2","0">>>>,
      <<"4:title  :2", <<"7","5","f","5","6","3","e","5">>>>,
      <<"4:title  :3", <<"4","9","5","d","f","e","5","3">>>>,
      <<"4:title  :4", <<"2","d","a","3","e","9","8","8">>>>,
      <<"4:title  :5", <<"6","d","c","b","9","3","6","2">>>>,
      <<"4:title  :6", <<"d","a","6","e","1","8","a","f">>>>,
      <<"4:title  :7", <<"8","8","4","c","4","8","6","3">>>>,
      <<"5::0", <<"2","6","e","b","2","7","d","f">>>>,
      <<"5::1", <<"9","5","a","4","b","c","8","a">>>>,
      <<"5::2", <<"d","4","1","8","0","5","d","7">>>>,
      <<"5::3", <<"c","a","f","0","a","b","9","0">>>>,
      <<"5::4", <<"9","8","c","8","1","2","2","e">>>>,
      <<"5::5", <<"0","f","9","5","4","c","f","4">>>>,
      <<"5::6", <<"1","e","1","9","8","6","e","3">>>>,
      <<"5::7", <<"1","e","8","3","8","6","8","c">>>>,
      <<"5:  Title  :0", <<"2","8","6","7","f","b","5","3">>>>,
      <<"5:  Title  :1", <<"a","a","f","e","0","f","1","f">>>>,
      <<"5:  Title  :2", <<"9","b","c","f","2","7","d","b">>>>,
      <<"5:  Title  :3", <<"6","e","0","6","7","6","7","0">>>>,
      <<"5:  Title  :4", <<"c","f","5","c","5","0","f","e">>>>,
      <<"5:  Title  :5", <<"9","7","4","2","f","7","c","2">>>>,
      <<"5:  Title  :6", <<"9","a","5","d","7","3","8","d">>>>,
      <<"5:  Title  :7", <<"f","1","c","b","3","8","2","4">>>>,
      <<"5:  title  :0", <<"f","a","b","9","b","8","c","2">>>>,
      <<"5:  title  :1", <<"a","9","8","5","1","2","9","7">>>>,
      <<"5:  title  :2", <<"4","9","7","d","5","c","e","f">>>>,
      <<"5:  title  :3", <<"e","3","f","4","0","d","c","e">>>>,
      <<"5:  title  :4", <<"0","d","0","5","1","a","7","6">>>>,
      <<"5:  title  :5", <<"8","d","f","c","f","9","0","3">>>>,
      <<"5:  title  :6", <<"5","f","6","a","d","3","9","a">>>>,
      <<"5:  title  :7", <<"9","9","0","c","4","0","7","3">>>>,
      <<"5: a :0", <<"2","5","7","4","f","1","c","6">>>>,
      <<"5: a :1", <<"3","0","8","5","d","9","c","5">>>>,
      <<"5: a :2", <<"4","c","c","b","b","d","e","b">>>>,
      <<"5: a :3", <<"7","6","d","7","1","3","5","5">>>>,
      <<"5: a :4", <<"7","5","3","5","8","c","7","7">>>>,
      <<"5: a :5", <<"2","9","3","f","c","b","9","2">>>>,
      <<"5: a :6", <<"b","e","5","6","6","8","c","d">>>>,
      <<"5: a :7", <<"5","d","4","d","e","3","7","3">>>>,
      <<"5:A:0", <<"9","6","1","5","c","a","6","6">>>>,
      <<"5:A:1", <<"7","e","c","c","4","3","5","9">>>>,
      <<"5:A:2", <<"4","3","2","1","9","f","2","6">>>>,
      <<"5:A:3", <<"8","8","e","b","4","b","8","7">>>>,
      <<"5:A:4", <<"2","d","e","3","8","6","1","3">>>>,
      <<"5:A:5", <<"9","4","5","0","4","7","0","e">>>>,
      <<"5:A:6", <<"7","d","3","1","8","b","d","a">>>>,
      <<"5:A:7", <<"8","5","6","a","c","1","5","8">>>>,
      <<"5:B:0", <<"e","7","9","1","5","a","9","2">>>>,
      <<"5:B:1", <<"f","2","e","d","9","5","0","e">>>>,
      <<"5:B:2", <<"b","7","b","e","4","d","b","e">>>>,
      <<"5:B:3", <<"e","b","a","5","1","7","a","4">>>>,
      <<"5:B:4", <<"4","c","3","2","6","8","2","1">>>>,
      <<"5:B:5", <<"e","4","9","3","8","f","d","4">>>>,
      <<"5:B:6", <<"2","0","4","d","2","f","b","8">>>>,
      <<"5:B:7", <<"2","6","2","2","a","e","d","1">>>>,
      <<"5:C:0", <<"a","8","2","d","7","7","7","9">>>>,
      <<"5:C:1", <<"2","d","3","3","7","3","6","e">>>>,
      <<"5:C:2", <<"e","9","e","0","0","4","2","8">>>>,
      <<"5:C:3", <<"e","8","1","1","9","8","a","a">>>>,
      <<"5:C:4", <<"d","7","8","4","6","e","6","0">>>>,
      <<"5:C:5", <<"6","b","e","3","5","4","5","4">>>>,
      <<"5:C:6", <<"c","6","f","6","5","3","1","8">>>>,
      <<"5:C:7", <<"7","b","c","b","c","e","8","e">>>>,
      <<"5:TITLE:0", <<"2","1","6","6","f","4","5","f">>>>,
      <<"5:TITLE:1", <<"e","d","2","5","4","f","1","f">>>>,
      <<"5:TITLE:2", <<"8","f","4","d","2","a","2","b">>>>,
      <<"5:TITLE:3", <<"d","c","c","5","e","3","d","c">>>>,
      <<"5:TITLE:4", <<"2","9","b","b","e","3","8","f">>>>,
      <<"5:TITLE:5", <<"5","4","a","5","c","9","a","5">>>>,
      <<"5:TITLE:6", <<"1","0","a","7","2","d","4","1">>>>,
      <<"5:TITLE:7", <<"9","2","4","7","b","6","6","f">>>>,
      <<"5:Title:0", <<"e","9","a","7","0","d","6","5">>>>,
      <<"5:Title:1", <<"4","5","8","9","c","3","e","b">>>>,
      <<"5:Title:2", <<"1","8","8","3","d","7","f","8">>>>,
      <<"5:Title:3", <<"7","a","4","5","6","4","4","2">>>>,
      <<"5:Title:4", <<"b","d","2","2","a","0","8","1">>>>,
      <<"5:Title:5", <<"6","c","6","0","6","b","9","e">>>>,
      <<"5:Title:6", <<"1","6","3","a","e","b","f","7">>>>,
      <<"5:Title:7", <<"7","1","5","b","7","0","5","3">>>>,
      <<"5:a:0", <<"6","3","8","4","7","4","f","1">>>>,
      <<"5:a:1", <<"c","b","3","7","4","2","0","4">>>>,
      <<"5:a:2", <<"1","e","3","6","5","c","9","a">>>>,
      <<"5:a:3", <<"f","c","3","8","1","e","9","b">>>>,
      <<"5:a:4", <<"5","7","3","0","5","a","2","7">>>>,
      <<"5:a:5", <<"d","c","2","3","4","0","b","a">>>>,
      <<"5:a:6", <<"3","4","2","7","d","d","7","7">>>>,
      <<"5:a:7", <<"1","0","6","d","f","7","8","0">>>>,
      <<"5:a :0", <<"b","5","b","9","0","e","8","5">>>>,
      <<"5:a :1", <<"9","a","6","1","f","9","7","a">>>>,
      <<"5:a :2", <<"c","d","4","7","2","6","c","5">>>>,
      <<"5:a :3", <<"2","c","2","2","0","8","b","c">>>>,
      <<"5:a :4", <<"c","8","a","d","a","f","a","5">>>>,
      <<"5:a :5", <<"d","2","e","a","2","3","6","5">>>>,
      <<"5:a :6", <<"b","3","e","8","e","6","4","a">>>>,
      <<"5:a :7", <<"6","2","0","d","8","7","4","f">>>>,
      <<"5:b:0", <<"0","6","4","a","b","0","6","a">>>>,
      <<"5:b:1", <<"f","e","7","3","1","2","d","a">>>>,
      <<"5:b:2", <<"9","2","6","b","9","3","2","b">>>>,
      <<"5:b:3", <<"5","3","3","1","f","6","3","d">>>>,
      <<"5:b:4", <<"9","d","d","c","6","4","0","7">>>>,
      <<"5:b:5", <<"4","e","0","7","0","d","0","4">>>>,
      <<"5:b:6", <<"e","f","1","8","1","0","d","6">>>>,
      <<"5:b:7", <<"b","3","e","e","8","b","1","a">>>>,
      <<"5:c:0", <<"5","e","a","1","d","8","b","b">>>>,
      <<"5:c:1", <<"a","c","2","3","7","c","3","7">>>>,
      <<"5:c:2", <<"9","b","8","c","4","7","6","5">>>>,
      <<"5:c:3", <<"1","8","3","4","7","1","7","2">>>>,
      <<"5:c:4", <<"0","a","a","e","1","f","c","4">>>>,
      <<"5:c:5", <<"4","e","4","f","4","3","6","c">>>>,
      <<"5:c:6", <<"1","8","c","a","f","3","8","e">>>>,
      <<"5:c:7", <<"8","4","4","e","3","a","9","a">>>>,
      <<"5:title:0", <<"e","a","d","9","e","5","b","d">>>>,
      <<"5:title:1", <<"5","7","c","9","3","1","a","c">>>>,
      <<"5:title:2", <<"4","0","6","8","d","7","a","d">>>>,
      <<"5:title:3", <<"3","b","a","8","4","1","1","4">>>>,
      <<"5:title:4", <<"0","8","4","0","0","d","c","1">>>>,
      <<"5:title:5", <<"b","1","4","7","8","0","9","d">>>>,
      <<"5:title:6", <<"0","3","7","9","e","a","0","1">>>>,
      <<"5:title:7", <<"1","8","2","6","d","5","b","2">>>>,
      <<"5:title  :0", <<"b","5","5","3","1","6","9","e">>>>,
      <<"5:title  :1", <<"c","8","1","2","f","6","2","d">>>>,
      <<"5:title  :2", <<"9","e","7","6","a","4","7","c">>>>,
      <<"5:title  :3", <<"4","e","f","e","2","b","d","7">>>>,
      <<"5:title  :4", <<"b","5","8","f","5","8","3","e">>>>,
      <<"5:title  :5", <<"4","d","a","9","4","3","b","f">>>>,
      <<"5:title  :6", <<"4","f","e","f","5","4","6","3">>>>,
      <<"5:title  :7", <<"c","f","b","6","a","6","a","8">>>>,
      <<"6::0", <<"1","1","9","d","6","4","8","3">>>>,
      <<"6::1", <<"5","4","4","c","b","c","d","d">>>>,
      <<"6::2", <<"2","1","e","c","3","9","c","e">>>>,
      <<"6::3", <<"b","f","c","2","9","f","e","6">>>>,
      <<"6::4", <<"1","d","5","8","6","d","c","c">>>>,
      <<"6::5", <<"9","3","a","2","8","3","1","e">>>>,
      <<"6::6", <<"e","1","b","9","0","6","f","9">>>>,
      <<"6::7", <<"c","e","1","3","7","0","4","0">>>>,
      <<"6:  Title  :0", <<"e","6","5","b","4","f","2","8">>>>,
      <<"6:  Title  :1", <<"9","9","c","b","6","0","d","6">>>>,
      <<"6:  Title  :2", <<"9","4","9","2","1","f","8","8">>>>,
      <<"6:  Title  :3", <<"3","5","e","4","1","a","c","1">>>>,
      <<"6:  Title  :4", <<"c","0","a","d","c","e","4","b">>>>,
      <<"6:  Title  :5", <<"a","4","b","e","6","a","5","a">>>>,
      <<"6:  Title  :6", <<"2","7","c","1","c","9","9","5">>>>,
      <<"6:  Title  :7", <<"0","7","1","3","e","a","4","f">>>>,
      <<"6:  title  :0", <<"1","1","1","a","a","2","b","0">>>>,
      <<"6:  title  :1", <<"a","4","a","2","4","6","a","b">>>>,
      <<"6:  title  :2", <<"5","d","8","b","3","2","1","f">>>>,
      <<"6:  title  :3", <<"4","b","a","d","7","d","a","0">>>>,
      <<"6:  title  :4", <<"0","9","7","d","5","c","d","e">>>>,
      <<"6:  title  :5", <<"a","a","7","8","f","b","0","0">>>>,
      <<"6:  title  :6", <<"c","e","f","a","f","0","4","5">>>>,
      <<"6:  title  :7", <<"6","4","8","d","2","c","e","7">>>>,
      <<"6: a :0", <<"4","6","0","a","6","e","d","8">>>>,
      <<"6: a :1", <<"3","6","e","c","0","a","8","5">>>>,
      <<"6: a :2", <<"f","b","6","2","7","7","f","7">>>>,
      <<"6: a :3", <<"b","b","8","0","4","d","c","2">>>>,
      <<"6: a :4", <<"e","2","5","6","d","c","f","9">>>>,
      <<"6: a :5", <<"4","3","0","8","a","7","4","3">>>>,
      <<"6: a :6", <<"c","c","1","c","c","4","d","e">>>>,
      <<"6: a :7", <<"6","e","2","3","a","b","e","5">>>>,
      <<"6:A:0", <<"4","8","7","0","6","4","4","9">>>>,
      <<"6:A:1", <<"1","4","7","4","c","7","8","1">>>>,
      <<"6:A:2", <<"c","6","1","9","f","b","b","5">>>>,
      <<"6:A:3", <<"6","b","9","d","1","5","b","d">>>>,
      <<"6:A:4", <<"5","f","6","0","1","3","b","c">>>>,
      <<"6:A:5", <<"3","b","e","2","d","6","8","f">>>>,
      <<"6:A:6", <<"0","d","4","8","6","a","4","e">>>>,
      <<"6:A:7", <<"9","6","6","c","b","1","f","5">>>>,
      <<"6:B:0", <<"4","7","0","3","c","7","5","c">>>>,
      <<"6:B:1", <<"0","8","e","c","9","b","8","7">>>>,
      <<"6:B:2", <<"7","d","f","8","7","1","6","7">>>>,
      <<"6:B:3", <<"4","5","1","f","a","a","9","b">>>>,
      <<"6:B:4", <<"5","f","c","0","2","a","1","1">>>>,
      <<"6:B:5", <<"b","c","b","6","9","a","8","a">>>>,
      <<"6:B:6", <<"8","4","7","b","7","8","7","9">>>>,
      <<"6:B:7", <<"9","2","7","d","8","e","4","2">>>>,
      <<"6:C:0", <<"7","c","f","0","2","b","e","7">>>>,
      <<"6:C:1", <<"3","2","b","7","3","b","d","e">>>>,
      <<"6:C:2", <<"a","2","9","7","5","9","f","6">>>>,
      <<"6:C:3", <<"2","1","3","5","3","0","9","8">>>>,
      <<"6:C:4", <<"4","d","e","c","0","2","1","c">>>>,
      <<"6:C:5", <<"4","d","4","0","b","a","d","e">>>>,
      <<"6:C:6", <<"4","c","9","2","d","4","6","f">>>>,
      <<"6:C:7", <<"2","f","c","2","5","8","7","e">>>>,
      <<"6:TITLE:0", <<"4","f","1","b","3","e","7","3">>>>,
      <<"6:TITLE:1", <<"d","3","4","5","c","3","6","2">>>>,
      <<"6:TITLE:2", <<"2","8","1","6","e","6","8","f">>>>,
      <<"6:TITLE:3", <<"a","1","a","e","a","1","f","c">>>>,
      <<"6:TITLE:4", <<"7","5","c","d","b","6","1","0">>>>,
      <<"6:TITLE:5", <<"2","5","a","f","5","3","7","9">>>>,
      <<"6:TITLE:6", <<"0","e","5","f","3","6","d","a">>>>,
      <<"6:TITLE:7", <<"c","d","4","4","9","d","b","b">>>>,
      <<"6:Title:0", <<"3","a","7","f","7","e","c","3">>>>,
      <<"6:Title:1", <<"7","9","3","2","1","d","3","2">>>>,
      <<"6:Title:2", <<"c","d","5","1","4","3","8","a">>>>,
      <<"6:Title:3", <<"1","9","f","0","d","4","d","b">>>>,
      <<"6:Title:4", <<"5","4","f","9","5","4","f","6">>>>,
      <<"6:Title:5", <<"9","7","f","3","3","3","9","b">>>>,
      <<"6:Title:6", <<"d","6","e","2","2","d","a","e">>>>,
      <<"6:Title:7", <<"a","0","e","8","4","6","5","f">>>>,
      <<"6:a:0", <<"d","c","1","a","d","7","d","d">>>>,
      <<"6:a:1", <<"d","4","8","3","4","6","d","5">>>>,
      <<"6:a:2", <<"4","6","1","4","1","6","a","5">>>>,
      <<"6:a:3", <<"c","5","b","6","9","4","4","e">>>>,
      <<"6:a:4", <<"b","a","e","7","0","d","b","0">>>>,
      <<"6:a:5", <<"2","3","5","2","1","2","1","c">>>>,
      <<"6:a:6", <<"8","5","6","4","1","d","5","8">>>>,
      <<"6:a:7", <<"b","b","c","0","9","b","f","f">>>>,
      <<"6:a :0", <<"7","e","3","a","a","1","5","7">>>>,
      <<"6:a :1", <<"8","9","5","f","8","3","4","3">>>>,
      <<"6:a :2", <<"4","8","0","7","7","2","6","6">>>>,
      <<"6:a :3", <<"1","3","d","8","b","1","a","8">>>>,
      <<"6:a :4", <<"2","5","2","a","4","4","0","3">>>>,
      <<"6:a :5", <<"5","f","1","c","8","0","4","b">>>>,
      <<"6:a :6", <<"c","e","f","1","d","2","a","e">>>>,
      <<"6:a :7", <<"5","f","c","9","c","0","a","d">>>>,
      <<"6:b:0", <<"3","8","4","3","3","7","e","6">>>>,
      <<"6:b:1", <<"8","0","6","4","6","d","a","3">>>>,
      <<"6:b:2", <<"e","2","f","7","2","5","f","a">>>>,
      <<"6:b:3", <<"9","8","4","1","8","b","e","6">>>>,
      <<"6:b:4", <<"e","5","2","8","6","3","6","8">>>>,
      <<"6:b:5", <<"5","7","3","5","4","e","e","8">>>>,
      <<"6:b:6", <<"8","2","e","9","a","1","6","5">>>>,
      <<"6:b:7", <<"1","5","0","e","6","9","a","1">>>>,
      <<"6:c:0", <<"a","9","2","e","b","7","b","c">>>>,
      <<"6:c:1", <<"0","d","d","c","a","2","0","9">>>>,
      <<"6:c:2", <<"1","8","6","0","0","e","f","8">>>>,
      <<"6:c:3", <<"1","1","4","1","6","5","5","1">>>>,
      <<"6:c:4", <<"0","4","6","0","8","7","7","b">>>>,
      <<"6:c:5", <<"a","5","1","0","0","b","9","c">>>>,
      <<"6:c:6", <<"8","b","9","f","7","2","1","2">>>>,
      <<"6:c:7", <<"c","9","4","6","b","5","d","c">>>>,
      <<"6:title:0", <<"1","8","d","7","d","a","4","5">>>>,
      <<"6:title:1", <<"0","4","0","7","8","7","2","8">>>>,
      <<"6:title:2", <<"e","b","8","2","7","3","b","d">>>>,
      <<"6:title:3", <<"b","8","d","2","e","b","e","f">>>>,
      <<"6:title:4", <<"f","3","0","c","e","7","0","9">>>>,
      <<"6:title:5", <<"9","f","e","f","0","a","e","1">>>>,
      <<"6:title:6", <<"c","4","4","4","f","e","9","0">>>>,
      <<"6:title:7", <<"0","c","f","1","f","b","7","5">>>>,
      <<"6:title  :0", <<"8","b","6","b","8","7","8","b">>>>,
      <<"6:title  :1", <<"8","f","c","2","8","c","b","8">>>>,
      <<"6:title  :2", <<"0","c","d","4","e","6","c","d">>>>,
      <<"6:title  :3", <<"8","4","d","4","1","1","8","2">>>>,
      <<"6:title  :4", <<"f","e","7","7","0","1","8","3">>>>,
      <<"6:title  :5", <<"5","5","c","f","9","e","1","6">>>>,
      <<"6:title  :6", <<"c","6","0","a","5","8","3","9">>>>,
      <<"6:title  :7", <<"6","9","1","d","1","9","5","0">>>>
    }

Sha256Hex8 ==
    [input \in { p[1] : p \in Sha256Table } |->
        (CHOOSE p \in Sha256Table : p[1] = input)[2]]

\* sectionHash(level, title, occurrenceIndex)
sectionHash_CaseSensitive(level, title, occurrenceIndex) ==
    LET input == NatToStr(level) \o <<":">> \o Trim(title)
                 \o <<":">> \o NatToStr(occurrenceIndex)
    IN  Sha256Hex8[StrOf(input)]

sectionHash(level, title, occurrenceIndex) ==
    LET input == NatToStr(level) \o <<":">> \o Trim(ToLowerCase(title))
                 \o <<":">> \o NatToStr(occurrenceIndex)
    IN  Sha256Hex8[StrOf(input)]

HexChars == {"0","1","2","3","4","5","6","7","8","9",
             "a","b","c","d","e","f","A","B","C","D","E","F"}

LowerHexChars == {"0","1","2","3","4","5","6","7","8","9",
                  "a","b","c","d","e","f"}

\* isValidId(id): /^[0-9a-f]{8}$/i
isValidId_AnyLength(id) == \A i \in 1..Len(id) : id[i] \in HexChars

isValidId_CaseSensitive(id) ==
    Len(id) = 8 /\ \A i \in 1..Len(id) : id[i] \in LowerHexChars

isValidId(id) == Len(id) = 8 /\ \A i \in 1..Len(id) : id[i] \in HexChars

----------------------------------------------------------------------------
(* parser.ts *)

FRONTMATTER_DELIMITER == <<"-","-","-">>

\* the grave accent, which a TLA+ string cannot hold, as an atom of its own
BackTick == "<grave>"

BackTicks == <<BackTick, BackTick, BackTick>>
Tildes == <<"~","~","~">>

Null == <<"null">>
NoMatch == [ok |-> FALSE, level |-> 0, title |-> <<>>]

\* HEADER_REGEX = /^(#{1,6})\s+(.+)$/ applied to one line: the pairs (k, w)
\* with k '#', then w white-space characters, then a non-empty rest without
\* line terminator; the greedy quantifiers keep the largest k, then the
\* largest w
HeaderSplits(line) ==
    { kw \in (1..6) \X (1..Len(line)) :
        /\ kw[1] + kw[2] < Len(line)
        /\ \A i \in 1..kw[1] : line[i] = "#"
        /\ \A i \in (kw[1] + 1)..(kw[1] + kw[2]) : line[i] \in WhiteSpace
        /\ \A i \in (kw[1] + kw[2] + 1)..Len(line) :
              line[i] \notin LineTerminators }

MatchHeader(line) ==
    LET S == HeaderSplits(line)
    IN  IF S = {} THEN NoMatch
        ELSE LET kw == CHOOSE a \in S : \A b \in S :
                           \/ b[1] < a[1]
                           \/ b[1] = a[1] /\ b[2] <= a[2]
             IN  [ok |-> TRUE, level |-> kw[1],
                  title |-> Trim(SubSeq(line, kw[1] + kw[2] + 1, Len(line)))]

\* the code-fence test of parseDocument: the trimmed line starts with three
\* grave accents or three tildes
IsFence_GraveOnly(line) == StartsWith(Trim(line), BackTicks)

IsFence(line) ==
    StartsWith(Trim(line), BackTicks) \/ StartsWith(Trim(line), Tildes)

\* 0-indexed position of the closing frontmatter delimiter, or -1
ClosingDelimiter_Last(lines) ==
    IF Trim(lines[1]) # FRONTMATTER_DELIMITER THEN -1
    ELSE LET C == { i \in 1..(Len(lines) - 1) :
                      Trim(lines[i + 1]) = FRONTMATTER_DELIMITER }
         IN  IF C = {} THEN -1 ELSE CHOOSE i \in C : \A j \in C : i >= j

ClosingDelimiter(lines) ==
    IF Trim(lines[1]) # FRONTMATTER_DELIMITER THEN -1
    ELSE LET C == { i \in 1..(Len(lines) - 1) :
                      Trim(lines[i + 1]) = FRONTMATTER_DELIMITER }
         IN  IF C = {} THEN -1 ELSE CHOOSE i \in C : \A j \in C : i <= j

\* occurrences.get(key) ?? 0
MapGet(m, key) == IF key \in DOMAIN m THEN m[key] ELSE 0

\* occurrences.set(key, value)
MapSet(m, key, value) ==
    [k \in (DOMAIN m) \cup {key} |-> IF k = key THEN value ELSE m[k]]

\* the key of the occurrences map: level, ":", title.toLowerCase().trim()
normalizedKey_NoLevel(level, title) == Trim(ToLowerCase(title))

normalizedKey(level, title) ==
    NatToStr(level) \o <<":">> \o Trim(ToLowerCase(title))

\* the scanning loop of parseDocument from 0-indexed line i on
RECURSIVE ScanSections(_, _, _, _, _)
ScanSections(lines, i, inCodeBlock, occurrences, sections) ==
    IF i >= Len(lines) THEN sections
    ELSE
      LET line == lines[i + 1]
          match == MatchHeader(line)
      IN  IF IsFence(line)
          THEN ScanSections(lines, i + 1, ~inCodeBlock, occurrences, sections)
          ELSE IF inCodeBlock
          THEN ScanSections(lines, i + 1, inCodeBlock, occurrences, sections)
          ELSE IF match.ok
          THEN LET key == normalizedKey(match.level, match.title)
                   occurrence == MapGet(occurrences, key)
                   section == [id |-> sectionHash(match.level, match.title,
                                                    occurrence),
                               level |-> match.level,
                               title |-> match.title,
                               line |-> i + 1,
                               lineEnd |-> Len(lines)]
               IN  ScanSections(lines, i + 1, inCodeBlock,
                                MapSet(occurrences, key, occurrence + 1),
                                Append(sections, section))
          ELSE ScanSections(lines, i + 1, inCodeBlock, occurrences, sections)

\* end of file with the trailing all-white-space lines cut, not below from
TrimmedEnd_EmptyOnly(lines, from, last) ==
    LET S == { n \in from..last : n = from \/ lines[n] # <<>> }
    IN  CHOOSE n \in S : \A m \in S : m <= n

RECURSIVE TrimmedEnd(_, _, _)
TrimmedEnd(lines, from, last) ==
    IF last > from /\ Trim(lines[last]) = <<>>
    THEN TrimmedEnd(lines, from, last - 1)
    ELSE last

\* second loop of parseDocument: lineEnd of every section
FixLineEnds_NextLine(lines, sections) ==
    [i \in 1..Len(sections) |->
        IF i < Len(sections)
        THEN [sections[i] EXCEPT !.lineEnd = sections[i + 1].line]
        ELSE [sections[i] EXCEPT
                !.lineEnd = TrimmedEnd(lines, sections[i].line, Len(lines))]]

FixLineEnds(lines, sections) ==
    [i \in 1..Len(sections) |->
        IF i < Len(sections)
        THEN [sections[i] EXCEPT !.lineEnd = sections[i + 1].line - 1]
        ELSE [sections[i] EXCEPT
                !.lineEnd = TrimmedEnd(lines, sections[i].line, Len(lines))]]

parseDocument_EndLineAfter(content) ==
    LET lines == Split(content)
        c == ClosingDelimiter(lines)
        startLine == IF c = -1 THEN 0 ELSE c + 1
        sections == ScanSections(lines, startLine, FALSE, <<>>, <<>>)
    IN  [sections |-> FixLineEnds(lines, sections),
         lines |-> lines,
         frontmatter |-> IF c = -1 THEN Null ELSE Join(Slice(lines, 0, c + 1)),
         frontmatterEndLine |-> IF c = -1 THEN 0 ELSE c + 2]

parseDocument(content) ==
    LET lines == Split(content)
        c == ClosingDelimiter(lines)
        startLine == IF c = -1 THEN 0 ELSE c + 1
        sections == ScanSections(lines, startLine, FALSE, <<>>, <<>>)
    IN  [sections |-> FixLineEnds(lines, sections),
         lines |-> lines,
         frontmatter |-> IF c = -1 THEN Null ELSE Join(Slice(lines, 0, c + 1)),
         frontmatterEndLine |-> IF c = -1 THEN 0 ELSE c + 1]

\* findSection(doc, id): 1-based position of the first section with the id,
\* 0 for undefined
findSection(d, id) ==
    LET F == { i \in 1..Len(d.sections) : d.sections[i].id = id }
    IN  IF F = {} THEN 0 ELSE CHOOSE i \in F : \A j \in F : i <= j

\* getSectionEndLine(doc, section, deep)
getSectionEndLine_StrictlyLower(d, section, deep) ==
    LET sectionIndex == findSection(d, section.id)
        N == { i \in (sectionIndex + 1)..Len(d.sections) :
                 d.sections[i].level < section.level }
    IN  IF ~deep THEN section.lineEnd
        ELSE IF N # {}
        THEN d.sections[CHOOSE i \in N : \A j \in N : i <= j].line - 1
        ELSE TrimmedEnd(d.lines, section.line, Len(d.lines))

getSectionEndLine_SameLevel(d, section, deep) ==
    LET sectionIndex == findSection(d, section.id)
        N == { i \in (sectionIndex + 1)..Len(d.sections) :
                 d.sections[i].level = section.level }
    IN  IF ~deep THEN section.lineEnd
        ELSE IF N # {}
        THEN d.sections[CHOOSE i \in N : \A j \in N : i <= j].line - 1
        ELSE TrimmedEnd(d.lines, section.line, Len(d.lines))

getSectionEndLine(d, section, deep) ==
    LET sectionIndex == findSection(d, section.id)
        N == { i \in (sectionIndex + 1)..Len(d.sections) :
                 d.sections[i].level <= section.level }
    IN  IF ~deep THEN section.lineEnd
        ELSE IF N # {}
        THEN d.sections[CHOOSE i \in N : \A j \in N : i <= j].line - 1
        ELSE TrimmedEnd(d.lines, section.line, Len(d.lines))

\* serializeDocument(doc)
serializeDocument_TrailingNewline(lines) == Join(lines) \o <<NL>>

serializeDocument(lines) == Join(lines)

----------------------------------------------------------------------------
(* Inputs *)

Blank == <<>>
Spaces == <<" ">>
LineX == <<"x">>
LineY == <<"y">>
H1A == <<"#"," ","A">>
H1aSp == <<"#"," ","a"," ">>
H2A == <<"#","#"," ","A">>
H3B == <<"#","#","#"," ","B">>
H1B == <<"#"," ","B">>
H2B == <<"#","#"," ","B">>
H1C == <<"#"," ","C">>
H1Empty == <<"#"," "," ">>
H7A == <<"#","#","#","#","#","#","#"," ","A">>
IndentedH == <<" ","#"," ","A">>
Fence == <<BackTick, BackTick, BackTick>>
TildeFence == <<" ","~","~","~","x">>
Dashes == <<"-","-","-">>
H1Title == <<"#"," ","T","i","t","l","e">>
H2Title == <<"#","#"," ","T","i","t","l","e">>
LineOld == <<"o","l","d">>
LineKeep == <<"k","e","e","p">>
LineNew == <<"n","e","w">>

\* lines of the generated documents given to parseDocument
ParseVocabulary ==
    {Blank, Spaces, LineX, H1A, H1aSp, H2A, H3B, H1Empty, H7A, IndentedH,
     Fence, TildeFence, Dashes}

\* documents of the specification's testable properties and of parser.test.ts
ExampleSiblings == <<H1A, LineOld, Blank, H1B, LineKeep>>
ExampleNested == <<H1A, LineX, Blank, H2B, LineY, Blank, H1C>>
ExampleDuplicates == <<H1Title, H2Title, H1Title>>
ExampleFenced == <<H1A, Fence, H1B, Fence, H2B>>
ExampleFrontmatter == <<Dashes, H1A, Dashes, Blank, H1A, LineX, Blank, Blank>>

ExampleTrailing == <<H1A, LineX, Blank, H1B, LineY, Blank, Spaces>>

ExampleDocuments ==
    {ExampleSiblings, ExampleNested, ExampleDuplicates, ExampleFenced,
     ExampleFrontmatter, ExampleTrailing}

\* a file with carriage returns before the line feeds, and a frontmatter
\* block whose delimiters carry white space
ExampleCarriageReturns == <<H1A \o <<CR>>, LineX \o <<CR>>, Blank>>
ExampleSpacedDelimiters ==
    <<<<" ","-","-","-">>, H1A, <<"-","-","-",TAB>>, H1B>>

ParseExamples == {ExampleCarriageReturns, ExampleSpacedDelimiters}

SeqsUpTo(S, n) == UNION { [1..k -> S] : k \in 1..n }

ParseInputs ==
    { Join(ls) : ls \in SeqsUpTo(ParseVocabulary, MaxLines)
                        \cup ExampleDocuments \cup ParseExamples }

NoDoc == [sections |-> <<>>, lines |-> <<>>, frontmatter |-> Null,
          frontmatterEndLine |-> 0]
NoQuery == [index |-> 0, deep |-> FALSE, result |-> 0]
NoCmd == [name |-> "none", id |-> Null, content |-> <<>>, deep |-> FALSE,
          before |-> FALSE]
NoOut == [kind |-> "none"]
NoHash == [level |-> 0, title |-> <<>>, occurrenceIndex |-> 0, id |-> Null]
NoProcs == <<>>

----------------------------------------------------------------------------
(* The parser and the boundary resolver applied to a text *)

InitParse ==
    /\ pc = "text"
    /\ file \in ParseInputs
    /\ doc = NoDoc
    /\ query = NoQuery
    /\ prev = <<>>
    /\ cmd = NoCmd
    /\ out = NoOut
    /\ written = <<Null>>
    /\ h1 = NoHash
    /\ h2 = NoHash
    /\ procs = NoProcs

ParseDocument ==
    /\ pc = "text"
    /\ doc' = parseDocument(file)
    /\ pc' = "parsed"
    /\ UNCHANGED <<file, query, prev, cmd, out, written, h1, h2, procs>>

GetSectionEndLine ==
    /\ pc = "parsed"
    /\ \E i \in 1..Len(doc.sections), deep \in BOOLEAN :
          query' = [index |-> i, deep |-> deep,
                    result |-> getSectionEndLine(doc, doc.sections[i], deep)]
    /\ pc' = "resolved"
    /\ UNCHANGED <<file, doc, prev, cmd, out, written, h1, h2, procs>>

\* serializeDocument on the parsed document, and once more on the parse of
\* its result
SerializeDocument ==
    /\ pc = "parsed"
    /\ out' = [kind |-> "text",
               text |-> serializeDocument(doc.lines),
               again |-> serializeDocument(
                             parseDocument(serializeDocument(doc.lines)).lines)]
    /\ pc' = "serialized"
    /\ UNCHANGED <<file, doc, query, prev, cmd, written, h1, h2, procs>>

NextParse == ParseDocument \/ GetSectionEndLine \/ SerializeDocument

SpecParse == InitParse /\ [][NextParse]_vars

----------------------------------------------------------------------------
(* magic.ts and yaml.ts, as far as the commands call them *)

\* getNestedValue(parseFrontmatter(getFrontmatterContent(doc)), key): the
\* frontmatter bodies of the model hold no "key: value" line, so that the
\* parsed map has no entry and the lookup is undefined for every key
MetaLookupDefined(d, key) == FALSE

\* first match of /\{([^}]+)\}/ at or after position i: <<start, end>>, or
\* <<0, 0>> when there is none
MagicMatch(input, i) ==
    LET M == { se \in (i..Len(input)) \X (i..Len(input)) :
                 /\ input[se[1]] = "{"
                 /\ input[se[2]] = "}"
                 /\ se[2] > se[1] + 1
                 /\ \A k \in (se[1] + 1)..(se[2] - 1) : input[k] # "}" }
    IN  IF M = {} THEN <<0, 0>>
        ELSE CHOOSE a \in M : \A b \in M : a[1] <= b[1]

MetaPrefix == <<"m","e","t","a",":">>

\* expandMagic(input, meta) for the expressions {meta:key} and the unknown
\* ones; the clock expressions ({date}, {time}, {dt}, ...) are not inputs
\* of the model
RECURSIVE expandMagic(_, _)
expandMagic(input, d) ==
    LET m == MagicMatch(input, 1)
    IN  IF m = <<0, 0>> THEN input
        ELSE LET trimmed == Trim(SubSeq(input, m[1] + 1, m[2] - 1))
                 replacement ==
                     IF StartsWith(trimmed, MetaPrefix)
                        /\ ~MetaLookupDefined(d, SliceFrom(trimmed, 5))
                     THEN <<>>
                     ELSE SubSeq(input, m[1], m[2])
             IN  SubSeq(input, 1, m[1] - 1) \o replacement
                 \o expandMagic(SubSeq(input, m[2] + 1, Len(input)), d)

----------------------------------------------------------------------------
(* cli.ts: the commands, as functions of the file text and the arguments.
   Each returns the text of the file afterwards, the outcome and the line
   array it wrote (NotWritten when writeFile was not called). *)

NotWritten == <<Null>>

Failure(text, code) ==
    [file |-> text, written |-> NotWritten,
     out |-> [kind |-> "error", code |-> code]]

\* startsWithHeader(content)
startsWithHeader(content) == MatchHeader(Split(content)[1])

\* getSectionContent(doc, section, deep); the variant starts at the header
getSectionContent_WithHeader(d, section, deep) ==
    Join(Slice(d.lines, section.line - 1,
               getSectionEndLine(d, section, deep)))

getSectionContent(d, section, deep) ==
    Join(Slice(d.lines, section.line, getSectionEndLine(d, section, deep)))

\* cmdRead, once the section is found
cmdRead_Section(text, d, section, deep) ==
    [file |-> text, written |-> NotWritten,
     out |-> [kind |-> "ok", action |-> "read",
              id |-> section.id,
              level |-> section.level,
              title |-> section.title,
              lineStart |-> section.line,
              lineEnd |-> getSectionEndLine(d, section, deep),
              content |-> getSectionContent(d, section, deep)]]

\* cmdRead, once the document is parsed
cmdRead_Doc(text, d, id, deep) ==
    IF findSection(d, id) = 0 THEN Failure(text, "section_not_found")
    ELSE cmdRead_Section(text, d, d.sections[findSection(d, id)], deep)

cmdRead(text, id, deep) ==
    IF ~isValidId(id) THEN Failure(text, "invalid_id")
    ELSE cmdRead_Doc(text, parseDocument(text), id, deep)

\* cmdWrite: the new content as lines, after a blank line when it does not
\* start with one
WriteNewLines_NoBlankLine(expandedContent) ==
    IF expandedContent = <<>> THEN <<>> ELSE Split(expandedContent)

WriteNewLines_Always(expandedContent) ==
    IF expandedContent = <<>> THEN <<Blank>>
    ELSE <<Blank>> \o Split(expandedContent)

WriteNewLines(expandedContent) ==
    LET split == IF expandedContent = <<>> THEN <<>>
                 ELSE Split(expandedContent)
    IN  IF Len(split) > 0 /\ Trim(split[1]) # <<>>
        THEN <<Blank>> \o split
        ELSE split

\* cmdWrite: the header and what precedes it, the new lines, what follows
\* the section
WriteLines_OffByOne(d, section, newLines, endLine) ==
    Slice(d.lines, 0, section.line) \o newLines
    \o SliceFrom(d.lines, endLine + 1)

WriteLines(d, section, newLines, endLine) ==
    LET beforeSection == Slice(d.lines, 0, section.line)
        afterSection == SliceFrom(d.lines, endLine)
    IN  beforeSection \o newLines \o afterSection

\* cmdWrite: what it writes and reports, given the lines it wrote
cmdWrite_Result(section, newLines, endLine, lines) ==
    [file |-> serializeDocument(lines), written |-> lines,
     out |-> [kind |-> "ok", action |-> "updated",
              id |-> section.id,
              lineStart |-> section.line,
              lineEnd |-> section.line + Len(newLines),
              linesAdded |-> Len(newLines),
              linesRemoved |-> endLine - section.line]]

\* cmdWrite, once the section is found and the content expanded; the
\* variant keeps the old content after the new lines
cmdWrite_Section_KeepOld(d, section, newLines, endLine) ==
    cmdWrite_Result(section, newLines, endLine,
                    WriteLines(d, section, newLines, section.line))

cmdWrite_Section(d, section, newLines, endLine) ==
    cmdWrite_Result(section, newLines, endLine,
                    WriteLines(d, section, newLines, endLine))

\* cmdWrite, once the document is parsed
cmdWrite_Doc(text, d, id, newContent, deep) ==
    IF findSection(d, id) = 0 THEN Failure(text, "section_not_found")
    ELSE cmdWrite_Section(d, d.sections[findSection(d, id)],
                          WriteNewLines(expandMagic(newContent, d)),
                          getSectionEndLine(d, d.sections[findSection(d, id)],
                                            deep))

cmdWrite(text, id, newContent, deep) ==
    IF ~isValidId(id) THEN Failure(text, "invalid_id")
    ELSE cmdWrite_Doc(text, parseDocument(text), id, newContent, deep)

\* cmdAppend: the id it reports, that of the section found at the insertion
\* point of the new document when the content starts with a header
AppendResultId(newDoc, sectionId, headerInfo, insertLine) ==
    LET N == { i \in 1..Len(newDoc.sections) :
                 /\ newDoc.sections[i].line = insertLine + 1
                 /\ newDoc.sections[i].title = headerInfo.title }
    IN  IF headerInfo.ok /\ N # {}
        THEN newDoc.sections[CHOOSE i \in N : \A j \in N : i <= j].id
        ELSE sectionId

\* cmdAppend: the content as lines, after a blank line when it is put after
\* a line that is not blank and does not start with one
AppendNewLines_BeforeToo(d, split, insertLine, before) ==
    IF /\ insertLine > 0
       /\ Trim(d.lines[insertLine]) # <<>>
       /\ Trim(split[1]) # <<>>
    THEN <<Blank>> \o split
    ELSE split

AppendNewLines(d, split, insertLine, before) ==
    IF /\ ~before
       /\ insertLine > 0
       /\ Trim(d.lines[insertLine]) # <<>>
       /\ Trim(split[1]) # <<>>
    THEN <<Blank>> \o split
    ELSE split

\* cmdAppend: what it writes and reports, given the lines it wrote
cmdAppend_Result(sectionId, headerInfo, insertLine, newLines, lines) ==
    [file |-> serializeDocument(lines), written |-> lines,
     out |-> [kind |-> "ok",
              action |-> IF headerInfo.ok THEN "created" ELSE "appended",
              id |-> AppendResultId(parseDocument(serializeDocument(lines)),
                                    sectionId, headerInfo, insertLine),
              lineStart |-> insertLine + 1,
              lineEnd |-> IF headerInfo.ok
                          THEN insertLine + Len(newLines) ELSE -1,
              linesAdded |-> Len(newLines),
              linesRemoved |-> 0]]

\* cmdAppend, once the new lines are known; the variant splices the line
\* at the insertion point out
cmdAppend_Lines_Overwrite(d, sectionId, headerInfo, insertLine, newLines) ==
    cmdAppend_Result(sectionId, headerInfo, insertLine, newLines,
                     Slice(d.lines, 0, insertLine) \o newLines
                     \o SliceFrom(d.lines, insertLine + 1))

cmdAppend_Lines(d, sectionId, headerInfo, insertLine, newLines) ==
    cmdAppend_Result(sectionId, headerInfo, insertLine, newLines,
                     Slice(d.lines, 0, insertLine) \o newLines
                     \o SliceFrom(d.lines, insertLine))

\* the part of cmdAppend after the insertion point is known
AppendAt(d, sectionId, expandedContent, insertLine, before) ==
    cmdAppend_Lines(d, sectionId, startsWithHeader(expandedContent),
                    insertLine,
                    AppendNewLines(d, Split(expandedContent), insertLine,
                                   before))

\* the result id "-" of an append without target section
NoSectionId == <<"-">>

\* cmdAppend with a target id, once the section is found; the variant puts
\* the content of an append before the section after its header
cmdAppend_Section_AfterHeader(d, section, expandedContent, deep, before) ==
    AppendAt(d, section.id, expandedContent,
             IF before THEN section.line
             ELSE getSectionEndLine(d, section, deep),
             before)

cmdAppend_Section(d, section, expandedContent, deep, before) ==
    AppendAt(d, section.id, expandedContent,
             IF before THEN section.line - 1
             ELSE getSectionEndLine(d, section, deep),
             before)

\* cmdAppend, once the document is parsed and the content expanded;
\* id = Null stands for the call without target id
cmdAppend_Doc(text, d, id, expandedContent, deep, before) ==
    IF id = Null
    THEN AppendAt(d, NoSectionId, expandedContent,
                  IF before THEN d.frontmatterEndLine ELSE Len(d.lines),
                  before)
    ELSE IF ~isValidId(id) THEN Failure(text, "invalid_id")
    ELSE IF findSection(d, id) = 0 THEN Failure(text, "section_not_found")
    ELSE cmdAppend_Section(d, d.sections[findSection(d, id)],
                           expandedContent, deep, before)

cmdAppend_Expand(text, d, id, newContent, deep, before) ==
    cmdAppend_Doc(text, d, id, expandMagic(newContent, d), deep, before)

cmdAppend(text, id, newContent, deep, before) ==
    cmdAppend_Expand(text, parseDocument(text), id, newContent, deep, before)

\* cmdEmpty: what it writes and reports, given the lines it wrote
cmdEmpty_Result(section, endLine, lines) ==
    [file |-> serializeDocument(lines), written |-> lines,
     out |-> [kind |-> "ok", action |-> "emptied",
              id |-> section.id,
              lineStart |-> section.line,
              lineEnd |-> -1,
              linesAdded |-> 0,
              linesRemoved |-> endLine - section.line]]

\* cmdEmpty, once the section and its end are found; the variant cuts the
\* header line too
cmdEmpty_Section_DropHeader(d, section, endLine) ==
    cmdEmpty_Result(section, endLine,
                    Slice(d.lines, 0, section.line - 1)
                    \o SliceFrom(d.lines, endLine))

cmdEmpty_Section(d, section, endLine) ==
    cmdEmpty_Result(section, endLine,
                    Slice(d.lines, 0, section.line)
                    \o SliceFrom(d.lines, endLine))

\* cmdEmpty, once the document is parsed; the variant writes the parsed
\* lines back before it reports that the section is missing
cmdEmpty_Doc_WriteFirst(text, d, id, deep) ==
    IF findSection(d, id) = 0
    THEN [file |-> serializeDocument(d.lines), written |-> d.lines,
          out |-> [kind |-> "error", code |-> "section_not_found"]]
    ELSE cmdEmpty_Section(d, d.sections[findSection(d, id)],
                          getSectionEndLine(d, d.sections[findSection(d, id)],
                                            deep))

cmdEmpty_Doc(text, d, id, deep) ==
    IF findSection(d, id) = 0 THEN Failure(text, "section_not_found")
    ELSE cmdEmpty_Section(d, d.sections[findSection(d, id)],
                          getSectionEndLine(d, d.sections[findSection(d, id)],
                                            deep))

cmdEmpty(text, id, deep) ==
    IF ~isValidId(id) THEN Failure(text, "invalid_id")
    ELSE cmdEmpty_Doc(text, parseDocument(text), id, deep)

\* cmdRemove: what it writes and reports, given the lines it wrote; the
\* variant does not count the header line among the removed ones
cmdRemove_Result_NoHeader(section, endLine, lines) ==
    [file |-> serializeDocument(lines), written |-> lines,
     out |-> [kind |-> "ok", action |-> "removed",
              id |-> section.id,
              lineStart |-> section.line,
              lineEnd |-> -1,
              linesAdded |-> 0,
              linesRemoved |-> endLine - section.line]]

cmdRemove_Result(section, endLine, lines) ==
    [file |-> serializeDocument(lines), written |-> lines,
     out |-> [kind |-> "ok", action |-> "removed",
              id |-> section.id,
              lineStart |-> section.line,
              lineEnd |-> -1,
              linesAdded |-> 0,
              linesRemoved |-> endLine - section.line + 1]]

\* cmdRemove, once the section is found: the section goes with its
\* subsections (getSectionEndLine with deep = true); the variant with
\* deep = false stops at the section's own lineEnd
cmdRemove_Shallow(d, section) ==
    cmdRemove_Result(section, getSectionEndLine(d, section, FALSE),
                     Slice(d.lines, 0, section.line - 1)
                     \o SliceFrom(d.lines,
                                  getSectionEndLine(d, section, FALSE)))

cmdRemove_Section_KeepHeader(d, section) ==
    cmdRemove_Result(section, getSectionEndLine(d, section, TRUE),
                     Slice(d.lines, 0, section.line)
                     \o SliceFrom(d.lines,
                                  getSectionEndLine(d, section, TRUE)))

cmdRemove_Section(d, section) ==
    cmdRemove_Result(section, getSectionEndLine(d, section, TRUE),
                     Slice(d.lines, 0, section.line - 1)
                     \o SliceFrom(d.lines,
                                  getSectionEndLine(d, section, TRUE)))

\* cmdRemove, once the document is parsed
cmdRemove_Doc(text, d, id) ==
    IF findSection(d, id) = 0 THEN Failure(text, "section_not_found")
    ELSE cmdRemove_Section(d, d.sections[findSection(d, id)])

cmdRemove(text, id) ==
    IF ~isValidId(id) THEN Failure(text, "invalid_id")
    ELSE cmdRemove_Doc(text, parseDocument(text), id)

----------------------------------------------------------------------------
(* cli.ts and parser.ts: search *)

\* line.includes(pattern)
Includes(line, pattern) ==
    \E i \in 0..(Len(line) - Len(pattern)) :
        SubSeq(line, i + 1, i + Len(pattern)) = pattern

\* findSectionAtLine(doc, lineNum): 1-based position of the last section
\* that starts at or before the line, 0 for undefined
findSectionAtLine_Strict(d, lineNum) ==
    LET S == { i \in 1..Len(d.sections) : d.sections[i].line < lineNum }
    IN  IF S = {} THEN 0 ELSE CHOOSE i \in S : \A j \in S : j <= i

findSectionAtLine(d, lineNum) ==
    LET S == { i \in 1..Len(d.sections) : d.sections[i].line <= lineNum }
    IN  IF S = {} THEN 0 ELSE CHOOSE i \in S : \A j \in S : j <= i

\* the SearchMatch of line lineNum; sectionId is Null outside any section
SearchMatch(d, lineNum, found) ==
    [sectionId |-> IF found = 0 THEN Null ELSE d.sections[found].id,
     line |-> lineNum,
     content |-> d.lines[lineNum]]

\* the loop of cmdSearch from 0-indexed line i on
RECURSIVE SearchLines(_, _, _, _)
SearchLines(d, pattern, i, matches) ==
    IF i >= Len(d.lines) THEN matches
    ELSE IF Includes(d.lines[i + 1], pattern)
    THEN SearchLines(d, pattern, i + 1,
                     Append(matches,
                            SearchMatch(d, i + 1,
                                        findSectionAtLine(d, i + 1))))
    ELSE SearchLines(d, pattern, i + 1, matches)

\* cmdSearch, once the document is parsed
cmdSearch_Doc(text, d, pattern) ==
    [file |-> text, written |-> NotWritten,
     out |-> [kind |-> "ok", action |-> "search",
              matches |-> SearchLines(d, pattern, 0, <<>>)]]

\* cmdSearch without --summary
cmdSearch(text, pattern) == cmdSearch_Doc(text, parseDocument(text), pattern)

----------------------------------------------------------------------------
(* One invocation of the CLI on a file *)

\* lines of the generated documents given to the commands
CmdVocabulary == {Blank, LineX, H1A, H2A, H1B, Fence}

CmdInputs ==
    { Join(ls) : ls \in SeqsUpTo(CmdVocabulary, MaxDocLines) \cup ExampleDocuments }

\* contents given to write and append
MagicContent == <<"{","m","e","t","a",":","k","}">>
NewContents == {<<>>, LineNew, <<NL, "x">>, H2B \o <<NL, "y">>, MagicContent}

\* target ids that no section carries: too short, too long, not hexadecimal,
\* and the id of "# A" in upper case
ShortId == <<"a","b","c">>
LongId == <<"a","b","c","d","1","2","3","4","5">>
NonHexId == <<"x","y","z","1","2","3","4","5">>
UpperCaseId == <<"4","8","8","7","B","B","D","6">>

IdInputs(text) ==
    LET sections == parseDocument(text).sections
    IN  { sections[i].id : i \in 1..Len(sections) }
        \cup {ShortId, LongId, NonHexId, UpperCaseId}

Init ==
    /\ pc = "idle"
    /\ file \in CmdInputs
    /\ doc = NoDoc
    /\ query = NoQuery
    /\ prev = <<>>
    /\ cmd = NoCmd
    /\ out = NoOut
    /\ written = NotWritten
    /\ h1 = NoHash
    /\ h2 = NoHash
    /\ procs = NoProcs

\* the invocation runs to its end: the file is read, the command computes,
\* and writeFile replaces the file when the command got that far
Invoke(c, r) ==
    /\ pc' = "done"
    /\ prev' = file
    /\ cmd' = c
    /\ file' = r.file
    /\ out' = r.out
    /\ written' = r.written
    /\ UNCHANGED <<doc, query, h1, h2, procs>>

CmdRead ==
    /\ pc = "idle"
    /\ \E id \in IdInputs(file), deep \in BOOLEAN :
        Invoke([name |-> "read", id |-> id, content |-> <<>>,
                deep |-> deep, before |-> FALSE],
               cmdRead(file, id, deep))

\* the write command with a content among contents
CmdWriteOf(contents) ==
    /\ pc = "idle"
    /\ \E id \in IdInputs(file), content \in contents, deep \in BOOLEAN :
        Invoke([name |-> "write", id |-> id, content |-> content,
                deep |-> deep, before |-> FALSE],
               cmdWrite(file, id, content, deep))

CmdWrite == CmdWriteOf(NewContents)

\* the append command with a content among contents
CmdAppendOf(contents) ==
    /\ pc = "idle"
    /\ \E id \in IdInputs(file) \cup {Null}, content \in contents,
       deep \in BOOLEAN, before \in BOOLEAN :
        Invoke([name |-> "append", id |-> id, content |-> content,
                deep |-> deep, before |-> before],
               cmdAppend(file, id, content, deep, before))

CmdAppend == CmdAppendOf(NewContents)

CmdEmpty ==
    /\ pc = "idle"
    /\ \E id \in IdInputs(file), deep \in BOOLEAN :
        Invoke([name |-> "empty", id |-> id, content |-> <<>>,
                deep |-> deep, before |-> FALSE],
               cmdEmpty(file, id, deep))

CmdRemove ==
    /\ pc = "idle"
    /\ \E id \in IdInputs(file) :
        Invoke([name |-> "remove", id |-> id, content |-> <<>>,
                deep |-> TRUE, before |-> FALSE],
               cmdRemove(file, id))

\* patterns given to search
SearchPatterns == {<<"x">>, <<"#"," ">>, <<"e">>, <<>>}

CmdSearch ==
    /\ pc = "idle"
    /\ \E pattern \in SearchPatterns :
        Invoke([name |-> "search", id |-> Null, content |-> pattern,
                deep |-> FALSE, before |-> FALSE],
               cmdSearch(file, pattern))

Next ==
    CmdRead \/ CmdWrite \/ CmdAppend \/ CmdEmpty \/ CmdRemove \/ CmdSearch

Spec == Init /\ [][Next]_vars

----------------------------------------------------------------------------
(* Two calls of the identifier generator *)

HashLevels == {1, 2, 6}

HashTitles ==
    { <<"A">>, <<" ","a"," ">>, <<"B">>,
      <<"T","i","t","l","e">>, <<"t","i","t","l","e"," "," ">>,
      <<"T","I","T","L","E">> }

HashInputs ==
    [level : HashLevels, title : HashTitles,
     occurrenceIndex : 0..MaxOccurrence, id : {Null}]

InitHash ==
    /\ pc = "hash"
    /\ h1 \in HashInputs
    /\ h2 \in HashInputs
    /\ file = <<>>
    /\ doc = NoDoc
    /\ query = NoQuery
    /\ prev = <<>>
    /\ cmd = NoCmd
    /\ out = NoOut
    /\ written = NotWritten
    /\ procs = NoProcs

SectionHash ==
    /\ pc = "hash"
    /\ h1' = [h1 EXCEPT !.id = sectionHash(h1.level, h1.title,
                                           h1.occurrenceIndex)]
    /\ h2' = [h2 EXCEPT !.id = sectionHash(h2.level, h2.title,
                                           h2.occurrenceIndex)]
    /\ pc' = "hashed"
    /\ UNCHANGED <<file, doc, query, prev, cmd, out, written, procs>>

NextHash == SectionHash

SpecHash == InitHash /\ [][NextHash]_vars

----------------------------------------------------------------------------
(* isValidId applied to a string *)

\* the strings of hash.test.ts, and strings that end with a line feed, begin
\* with a space or hold the letters g and h
IdTestStrings ==
    { <<"a","b","c","d","1","2","3","4">>,
      <<"1","2","3","4","5","6","7","8">>,
      <<"A","B","C","D","E","F","0","0">>,
      <<"0","0","0","0","0","0","0","0">>,
      <<"a","b","c">>,
      <<"a","b","c","d","1","2","3","4","5">>,
      <<"x","y","z","1","2","3","4","5">>,
      <<"a","b","c","d"," ","1","2","3">>,
      <<>>,
      <<"a","b","c","d","1","2","3","4",NL>>,
      <<"a","b","c","d","1","2","3",NL>>,
      <<" ","b","c","d","1","2","3","4">>,
      <<"a","b","c","d","e","f","g","h">> }

\* a well-formed id with one character replaced
IdReplacements ==
    { [<<"0","a","1","B","2","c","3","D">> EXCEPT ![i] = c] :
        i \in 1..8, c \in {"g", "G", " ", "f", "F", "9"} }

IdCandidates == IdTestStrings \cup IdReplacements

\* the documents whose section ids are given to isValidId
IdDocuments ==
    { Join(ls) : ls \in SeqsUpTo({H1A, H2A, H1Title, LineX}, 2)
                        \cup ExampleDocuments }

InitId ==
    /\ pc = "text"
    /\ file \in IdDocuments
    /\ doc = NoDoc
    /\ query = NoQuery
    /\ prev = <<>>
    /\ cmd = NoCmd
    /\ out = NoOut
    /\ written = NotWritten
    /\ h1 = NoHash
    /\ h2 = NoHash
    /\ procs = NoProcs

IsValidId ==
    /\ pc = "parsed"
    /\ \E s \in IdCandidates
               \cup { doc.sections[i].id : i \in 1..Len(doc.sections) } :
          out' = [kind |-> "isValidId", id |-> s, value |-> isValidId(s)]
    /\ pc' = "validated"
    /\ UNCHANGED <<file, doc, query, prev, cmd, written, h1, h2, procs>>

NextId == ParseDocument \/ IsValidId

SpecId == InitId /\ [][NextId]_vars

----------------------------------------------------------------------------
(* parser.ts: the frontmatter block of a parsed document *)

\* getFrontmatterContent(doc): lines.slice(1, -1) of the block, joined
getFrontmatterContent(d) ==
    IF d.frontmatter = Null THEN <<>>
    ELSE Join(Slice(Split(d.frontmatter), 1, Len(Split(d.frontmatter)) - 1))

\* the block setFrontmatter builds: null when the trimmed content is empty
NewFrontmatter(yamlContent) ==
    IF Trim(yamlContent) # <<>>
    THEN <<"-","-","-">> \o <<NL>> \o Trim(yamlContent) \o <<NL>>
         \o <<"-","-","-">>
    ELSE Null

\* setFrontmatter, once the new block is built
setFrontmatter_NoBlankLine(d, newFrontmatter) ==
    IF d.frontmatter # Null
    THEN [d EXCEPT
            !.lines = (IF newFrontmatter # Null THEN Split(newFrontmatter)
                       ELSE <<>>)
                      \o SliceFrom(d.lines, d.frontmatterEndLine),
            !.frontmatter = newFrontmatter,
            !.frontmatterEndLine = IF newFrontmatter # Null
                                   THEN Len(Split(newFrontmatter)) ELSE 0]
    ELSE IF newFrontmatter # Null
    THEN [d EXCEPT
            !.lines = Split(newFrontmatter) \o d.lines,
            !.frontmatter = newFrontmatter,
            !.frontmatterEndLine = Len(Split(newFrontmatter))]
    ELSE d

setFrontmatter_Block(d, newFrontmatter) ==
    IF d.frontmatter # Null
    THEN [d EXCEPT
            !.lines = (IF newFrontmatter # Null THEN Split(newFrontmatter)
                       ELSE <<>>)
                      \o SliceFrom(d.lines, d.frontmatterEndLine),
            !.frontmatter = newFrontmatter,
            !.frontmatterEndLine = IF newFrontmatter # Null
                                   THEN Len(Split(newFrontmatter)) ELSE 0]
    ELSE IF newFrontmatter # Null
    THEN [d EXCEPT
            !.lines = Split(newFrontmatter) \o <<Blank>> \o d.lines,
            !.frontmatter = newFrontmatter,
            !.frontmatterEndLine = Len(Split(newFrontmatter))]
    ELSE d

\* setFrontmatter(doc, yamlContent): the document afterwards
setFrontmatter(d, yamlContent) ==
    setFrontmatter_Block(d, NewFrontmatter(yamlContent))

----------------------------------------------------------------------------
(* setFrontmatter applied to a parsed document *)

KeyValue == <<"k",":"," ","v">>

\* lines of the generated documents given to setFrontmatter
FrontmatterVocabulary == {Dashes, KeyValue, Blank, LineX, H1A}

FrontmatterInputs ==
    { Join(ls) : ls \in SeqsUpTo(FrontmatterVocabulary, MaxLines)
                        \cup {ExampleFrontmatter, ExampleSpacedDelimiters} }

\* contents given to setFrontmatter: empty, white space only, one line,
\* two lines inside white space, and a content that holds a delimiter line
YamlInputs ==
    { <<>>,
      <<" ",NL>>,
      KeyValue,
      <<" ","a",":"," ","1",NL,"b",":"," ","2",NL>>,
      <<"a",NL,"-","-","-",NL,"b">> }

InitFrontmatter ==
    /\ pc = "text"
    /\ file \in FrontmatterInputs
    /\ doc = NoDoc
    /\ query = NoQuery
    /\ prev = <<>>
    /\ cmd = NoCmd
    /\ out = NoOut
    /\ written = NotWritten
    /\ h1 = NoHash
    /\ h2 = NoHash
    /\ procs = NoProcs

\* setFrontmatter(doc, y), then getFrontmatterContent(doc)
SetFrontmatter ==
    /\ pc = "parsed"
    /\ \E y \in YamlInputs :
          /\ doc' = setFrontmatter(doc, y)
          /\ cmd' = [NoCmd EXCEPT !.name = "setFrontmatter", !.content = y]
          /\ out' = [kind |-> "frontmatter",
                     content |-> getFrontmatterContent(setFrontmatter(doc, y))]
    /\ pc' = "frontmatterSet"
    /\ UNCHANGED <<file, query, prev, written, h1, h2, procs>>

NextFrontmatter == ParseDocument \/ SetFrontmatter

SpecFrontmatter == InitFrontmatter /\ [][NextFrontmatter]_vars

----------------------------------------------------------------------------
(* Two invocations of the CLI on one file.  Each runs readFile, computes on
   the text it read, and runs writeFile unless the command failed before;
   nothing is locked between the two calls. *)

RaceProcs == {1, 2}

RaceDocuments ==
    { Join(ls) : ls \in {ExampleSiblings, ExampleNested, <<H1A, LineX, H1B>>} }

\* the mutating commands an invocation can be started with on a text
RaceCommands(text) ==
    LET ids == IdInputs(text) \ {LongId, NonHexId, UpperCaseId}
    IN  [name : {"write"}, id : ids, content : {LineNew},
         deep : BOOLEAN, before : {FALSE}]
        \cup [name : {"append"}, id : ids \cup {Null}, content : {LineY},
              deep : {FALSE}, before : BOOLEAN]
        \cup [name : {"empty"}, id : ids, content : {<<>>},
              deep : {FALSE}, before : {FALSE}]
        \cup [name : {"remove"}, id : ids, content : {<<>>},
              deep : {TRUE}, before : {FALSE}]

\* the command c computed on the text it was given
RunCommand(c, text) ==
    CASE c.name = "write" -> cmdWrite(text, c.id, c.content, c.deep)
      [] c.name = "append" ->
             cmdAppend(text, c.id, c.content, c.deep, c.before)
      [] c.name = "empty" -> cmdEmpty(text, c.id, c.deep)
      [] c.name = "remove" -> cmdRemove(text, c.id)

NoProc == [pc |-> "start", cmd |-> NoCmd, content |-> <<>>,
           readAt |-> 0, wroteAt |-> 0]

\* number of writeFile calls so far
Writes == Cardinality({ p \in RaceProcs : procs[p].wroteAt > 0 })

InitRace ==
    /\ pc = "race"
    /\ file \in RaceDocuments
    /\ prev = file
    /\ procs = [p \in RaceProcs |-> NoProc]
    /\ doc = NoDoc
    /\ query = NoQuery
    /\ cmd = NoCmd
    /\ out = NoOut
    /\ written = NotWritten
    /\ h1 = NoHash
    /\ h2 = NoHash

\* readFile of invocation p
RaceRead(p) ==
    /\ pc = "race"
    /\ procs[p].pc = "start"
    /\ \E c \in RaceCommands(prev) :
          procs' = [procs EXCEPT ![p] = [pc |-> "read", cmd |-> c,
                                         content |-> file,
                                         readAt |-> Writes,
                                         wroteAt |-> 0]]
    /\ UNCHANGED <<pc, file, doc, query, prev, cmd, out, written, h1, h2>>

\* the text invocation p computes on: the one its readFile returned
RaceText_Current(p) == file

RaceText(p) == procs[p].content

\* writeFile of invocation p with the result r of its command: the whole
\* file is replaced, unless the command threw before reaching writeFile
RaceOutcome(p, r) ==
    IF r.written = NotWritten
    THEN /\ file' = file
         /\ procs' = [procs EXCEPT ![p].pc = "done"]
    ELSE /\ file' = r.file
         /\ procs' = [procs EXCEPT ![p].pc = "done",
                                   ![p].wroteAt = Writes + 1]

\* the rest of invocation p: the command on the text read, then writeFile
RaceWrite(p) ==
    /\ pc = "race"
    /\ procs[p].pc = "read"
    /\ RaceOutcome(p, RunCommand(procs[p].cmd, RaceText(p)))
    /\ UNCHANGED <<pc, doc, query, prev, cmd, out, written, h1, h2>>

NextRace == \E p \in RaceProcs : RaceRead(p) \/ RaceWrite(p)

SpecRace == InitRace /\ [][NextRace]_vars

----------------------------------------------------------------------------
(* One invocation on documents and contents with frontmatter delimiters *)

FrameVocabulary == {Blank, LineX, H1A, H2A, Fence, Dashes}

FrameInputs ==
    { Join(ls) : ls \in SeqsUpTo(FrameVocabulary, MaxDocLines)
                        \cup ExampleDocuments }

FrameContents == {LineNew, Dashes, <<NL, "x">>, H2B \o <<NL, "y">>, Fence}

InitFrame ==
    /\ pc = "idle"
    /\ file \in FrameInputs
    /\ doc = NoDoc
    /\ query = NoQuery
    /\ prev = <<>>
    /\ cmd = NoCmd
    /\ out = NoOut
    /\ written = NotWritten
    /\ h1 = NoHash
    /\ h2 = NoHash
    /\ procs = NoProcs

FrameWrite == CmdWriteOf(FrameContents)

FrameAppend == CmdAppendOf(FrameContents)

NextFrame == FrameWrite \/ FrameAppend \/ CmdEmpty

SpecFrame == InitFrame /\ [][NextFrame]_vars

----------------------------------------------------------------------------
(* A second invocation on the file the first one left, with the same id *)

\* contents given to the repeated write: those of the single invocation,
\* a content that ends with a line feed, a blank one and a code fence
ContentXNL == <<"x", NL>>
ContentXY == <<"x", NL, "y">>
RepeatContents ==
    NewContents \cup {ContentXNL, <<NL>>, Fence, Dashes, ContentXY}

\* a file whose first line opens a frontmatter block that nothing closes
ExampleUnclosed == <<Dashes, H1A, LineX>>

RepeatInputs == CmdInputs \cup {Join(ExampleUnclosed)}

InitRepeat ==
    /\ pc = "idle"
    /\ file \in RepeatInputs
    /\ doc = NoDoc
    /\ query = NoQuery
    /\ prev = <<>>
    /\ cmd = NoCmd
    /\ out = NoOut
    /\ written = NotWritten
    /\ h1 = NoHash
    /\ h2 = NoHash
    /\ procs = NoProcs

FirstWrite == CmdWriteOf(RepeatContents)

\* the second invocation: command c with result r on the file of the first
InvokeAgain(c, r, label) ==
    /\ pc' = label
    /\ prev' = file
    /\ cmd' = c
    /\ file' = r.file
    /\ out' = r.out
    /\ written' = r.written
    /\ UNCHANGED <<doc, query, h1, h2, procs>>

\* write with the same id, content and deep flag, after a write
WriteAgain ==
    /\ pc = "done"
    /\ cmd.name = "write"
    /\ out.kind = "ok"
    /\ InvokeAgain(cmd, cmdWrite(file, cmd.id, cmd.content, cmd.deep),
                   "writtenAgain")

\* read with the same id and deep flag, after a write
ReadAgain ==
    /\ pc = "done"
    /\ cmd.name = "write"
    /\ out.kind = "ok"
    /\ InvokeAgain([cmd EXCEPT !.name = "read"],
                   cmdRead(file, cmd.id, cmd.deep), "readAgain")

\* command name with the id of the section just removed
AfterRemoveResult(name, id, deep) ==
    CASE name = "read" -> cmdRead(file, id, deep)
      [] name = "write" -> cmdWrite(file, id, LineNew, deep)
      [] name = "empty" -> cmdEmpty(file, id, deep)
      [] name = "remove" -> cmdRemove(file, id)

\* read, write, empty or remove with the same id, after a remove
AfterRemove ==
    /\ pc = "done"
    /\ cmd.name = "remove"
    /\ out.kind = "ok"
    /\ \E name \in {"read", "write", "empty", "remove"}, deep \in BOOLEAN :
          InvokeAgain([cmd EXCEPT !.name = name, !.deep = deep,
                                  !.content = IF name = "write" THEN LineNew
                                              ELSE <<>>],
                      AfterRemoveResult(name, cmd.id, deep), "afterRemove")

NextRepeat ==
    FirstWrite \/ CmdRemove \/ WriteAgain \/ ReadAgain \/ AfterRemove

SpecRepeat == InitRepeat /\ [][NextRepeat]_vars

----------------------------------------------------------------------------
(* Properties *)

Max2(a, b) == IF a >= b THEN a ELSE b

AllWhiteSpace(line) == \A i \in 1..Len(line) : line[i] \in WhiteSpace

\* number of the last line that is not all white space, 0 when there is none
LastNonBlank(lines) ==
    LET S == { n \in 1..Len(lines) : ~AllWhiteSpace(lines[n]) }
    IN  IF S = {} THEN 0 ELSE CHOOSE n \in S : \A m \in S : m <= n

\* the trimmed line starts with three grave accents or with three tildes
FenceLine(line) ==
    \E k \in 0..Len(line) :
        /\ Len(line) >= k + 3
        /\ \A i \in 1..k : line[i] \in WhiteSpace
        /\ \/ \A i \in (k + 1)..(k + 3) : line[i] = BackTick
           \/ \A i \in (k + 1)..(k + 3) : line[i] = "~"

NormalTitle(title) == Trim(ToLowerCase(title))

Parsed == pc \in {"parsed", "resolved"}

IsSectionLine(d, n) == \E i \in 1..Len(d.sections) : d.sections[i].line = n

\* fence lines among the scanned lines before line n
FencesBefore(d, n) ==
    Cardinality({ m \in (d.frontmatterEndLine + 1)..(n - 1) :
                    FenceLine(d.lines[m]) })

\* C1: the sections returned by parseDocument are strictly ascending by
\* header line, every section has line <= lineEnd, and the lineEnd of a
\* section is below the line of the next one.
C1_SectionsStrictlyOrdered ==
    Parsed =>
        LET s == doc.sections
        IN  /\ \A i \in 1..Len(s) : s[i].line <= s[i].lineEnd
            /\ \A i \in 1..(Len(s) - 1) :
                  /\ s[i].line < s[i + 1].line
                  /\ s[i].lineEnd < s[i + 1].line

C1_Witness ==
    /\ pc = "parsed"
    /\ Len(doc.sections) >= 3
    /\ \E i \in 1..Len(doc.sections) :
          doc.sections[i].line < doc.sections[i].lineEnd

\* C2: after parseDocument every section but the last ends on the line
\* before the next header, blank lines included, and the last section ends
\* on the last line of the file that is not all white space, never above
\* its own header.
C2_LineEndExact ==
    Parsed =>
        LET s == doc.sections
        IN  /\ \A i \in 1..(Len(s) - 1) : s[i].lineEnd = s[i + 1].line - 1
            /\ Len(s) > 0 =>
                  s[Len(s)].lineEnd =
                      Max2(LastNonBlank(doc.lines), s[Len(s)].line)

C2_Witness ==
    /\ pc = "parsed"
    /\ Len(doc.sections) >= 2
    /\ AllWhiteSpace(doc.lines[doc.sections[1].lineEnd])
    /\ doc.sections[Len(doc.sections)].lineEnd < Len(doc.lines)
    /\ doc.lines[Len(doc.lines)] # <<>>

\* C3: among the lines scanned after the frontmatter, a fence line never
\* becomes a section, no line preceded by an odd number of fence lines
\* becomes a section, and a line that matches the header pattern is a
\* section exactly when an even number of fence lines precede it.
C3_FenceParity ==
    Parsed =>
        \A n \in (doc.frontmatterEndLine + 1)..Len(doc.lines) :
            /\ FenceLine(doc.lines[n]) => ~IsSectionLine(doc, n)
            /\ FencesBefore(doc, n) % 2 = 1 => ~IsSectionLine(doc, n)
            /\ MatchHeader(doc.lines[n]).ok =>
                  (IsSectionLine(doc, n) <=> FencesBefore(doc, n) % 2 = 0)

C3_Witness ==
    /\ pc = "parsed"
    /\ \E n, m \in 1..Len(doc.lines) :
          /\ n < m
          /\ MatchHeader(doc.lines[n]).ok
          /\ FencesBefore(doc, n) = 1
          /\ ~IsSectionLine(doc, n)
          /\ MatchHeader(doc.lines[m]).ok
          /\ FencesBefore(doc, m) = 2
          /\ IsSectionLine(doc, m)

----------------------------------------------------------------------------
(* Properties of the commands *)

Done(name) == pc = "done" /\ cmd.name = name

\* the document the command parsed
Before == parseDocument(prev)

\* the section the command was aimed at, in the document d it parsed
Target(d) == d.sections[findSection(d, cmd.id)]

TargetEnd(d, deep) == getSectionEndLine(d, Target(d), deep)

IdOfA == sectionHash(1, <<"A">>, 0)

\* C5: write keeps every line up to and including the header of the
\* section, and every line after endLine(doc, section, deep), verbatim and
\* in order.
C5_WriteFrame ==
    (Done("write") /\ out.kind = "ok") =>
        LET d == Before
            old == Split(prev)
            new == Split(file)
            header == Target(d).line
            end == TargetEnd(d, cmd.deep)
            tail == Len(old) - end
        IN  /\ Len(new) >= header + tail
            /\ SubSeq(new, 1, header) = SubSeq(old, 1, header)
            /\ SubSeq(new, Len(new) - tail + 1, Len(new)) =
                   SubSeq(old, end + 1, Len(old))

C5_Witness ==
    /\ Done("write")
    /\ out.kind = "ok"
    /\ cmd.deep
    /\ TargetEnd(Before, TRUE) > TargetEnd(Before, FALSE)
    /\ TargetEnd(Before, TRUE) < Len(Split(prev))
    /\ cmd.content # <<>>

ShallowWriteOfNewOnA ==
    /\ Done("write")
    /\ prev = Join(ExampleSiblings)
    /\ cmd.id = IdOfA
    /\ cmd.content = LineNew
    /\ ~cmd.deep

\* C6 as stated: the shallow write of "new" on section A of
\* "# A\nold\n\n# B\nkeep" yields "# A\n\nnew\n\n# B\nkeep".
C6_BlankLineBeforeSibling ==
    ShallowWriteOfNewOnA =>
        file = Join(<<H1A, Blank, LineNew, Blank, H1B, LineKeep>>)

\* C6, amended: the shallow write of "new" on section A of
\* "# A\nold\n\n# B\nkeep" yields "# A\n\nnew\n# B\nkeep": the header, a
\* blank line, "new", and then at once the header "# B" with its content;
\* the blank line that stood before "# B" belonged to A and is replaced.
C6_WriteOnSiblings ==
    ShallowWriteOfNewOnA =>
        file = Join(<<H1A, Blank, LineNew, H1B, LineKeep>>)

C6_Witness == ShallowWriteOfNewOnA /\ out.kind = "ok" /\ out.linesRemoved = 2

\* C7: remove deletes the lines from the header of the section through
\* endLine(doc, section, deep = true) and keeps the others verbatim and in
\* order; the sections found by parsing the result are the sections outside
\* that range, with their level and title; removing "# A" from
\* "# A\nx\n\n## B\ny\n\n# C" leaves "# C".
C7_RemoveDeep ==
    (Done("remove") /\ out.kind = "ok") =>
        LET d == Before
            first == Target(d).line
            last == TargetEnd(d, TRUE)
            kept == SubSeq(d.lines, 1, first - 1)
                    \o SubSeq(d.lines, last + 1, Len(d.lines))
            outside == SelectSeq(d.sections,
                                 LAMBDA s : s.line < first \/ s.line > last)
            after == parseDocument(file).sections
        IN  /\ written = kept
            /\ file = Join(kept)
            /\ Len(after) = Len(outside)
            /\ \A i \in 1..Len(after) :
                  /\ after[i].level = outside[i].level
                  /\ after[i].title = outside[i].title
            /\ (prev = Join(ExampleNested) /\ cmd.id = IdOfA) =>
                  file = H1C

C7_Witness ==
    /\ Done("remove")
    /\ out.kind = "ok"
    /\ prev = Join(ExampleNested)
    /\ cmd.id = IdOfA
    /\ Len(parseDocument(file).sections) = 1

WellFormedId(id) ==
    /\ Len(id) = 8
    /\ \A i \in 1..Len(id) :
          id[i] \in {"0","1","2","3","4","5","6","7","8","9",
                     "a","b","c","d","e","f","A","B","C","D","E","F"}

Carried(d, id) ==
    \E i \in 1..Len(d.sections) : d.sections[i].id = id

\* C8: read, write, append with a target id, empty and remove fail with
\* invalid_id when the id is not 8 hexadecimal characters, fail with
\* section_not_found when the id is well formed and no section of the
\* document carries it, and succeed only when a section carries the id.
C8_IdErrors ==
    (/\ pc = "done"
     /\ cmd.name \in {"read", "write", "append", "empty", "remove"}
     /\ cmd.id # Null) =>
        LET d == Before
        IN  /\ ~WellFormedId(cmd.id) =>
                  out = [kind |-> "error", code |-> "invalid_id"]
            /\ (WellFormedId(cmd.id) /\ ~Carried(d, cmd.id)) =>
                  out = [kind |-> "error", code |-> "section_not_found"]
            /\ out.kind = "ok" => Carried(d, cmd.id)

C8_Witness ==
    /\ Done("append")
    /\ cmd.id = UpperCaseId
    /\ Carried(Before, ToLowerCase(cmd.id))
    /\ out = [kind |-> "error", code |-> "section_not_found"]

----------------------------------------------------------------------------
(* Properties of the identifiers *)

\* occurrences of the (level, normalized title) pair of section i before it
EarlierAlike(s, i) ==
    Cardinality({ j \in 1..(i - 1) :
                    /\ s[j].level = s[i].level
                    /\ NormalTitle(s[j].title) = NormalTitle(s[i].title) })

\* C9: the k-th header, counted from 0 in document order, with a given
\* level and lower-cased, trimmed title is hashed with occurrenceIndex k, and
\* the ids of the sections of one document are pairwise different.
C9_OccurrenceIndex ==
    Parsed =>
        LET s == doc.sections
        IN  /\ \A i \in 1..Len(s) :
                  s[i].id = sectionHash(s[i].level, s[i].title,
                                        EarlierAlike(s, i))
            /\ \A i, j \in 1..Len(s) : i # j => s[i].id # s[j].id

C9_Witness ==
    /\ pc = "parsed"
    /\ file = Join(ExampleDuplicates)
    /\ Len(doc.sections) = 3
    /\ EarlierAlike(doc.sections, 3) = 1
    /\ EarlierAlike(doc.sections, 2) = 0

\* C10: two calls of sectionHash return the same id exactly when the levels
\* are equal, the occurrence indexes are equal, and the titles differ at most
\* in letter case and in leading or trailing white space.
C10_IdentifyFunction ==
    pc = "hashed" =>
        (h1.id = h2.id <=>
            /\ h1.level = h2.level
            /\ h1.occurrenceIndex = h2.occurrenceIndex
            /\ NormalTitle(h1.title) = NormalTitle(h2.title))

C10_Witness ==
    /\ pc = "hashed"
    /\ h1.title # h2.title
    /\ ToLowerCase(h1.title) # ToLowerCase(h2.title)
    /\ h1.id = h2.id

----------------------------------------------------------------------------
(* Properties of isValidId, of the round trip and of the frontmatter *)

SectionIds(d) == { d.sections[i].id : i \in 1..Len(d.sections) }

\* C11: isValidId(s) is true exactly when s is 8 characters long and each of
\* them is one of 0-9, a-f, A-F; and every id of a section returned by
\* parseDocument is accepted.
C11_IsValidId ==
    pc = "validated" =>
        /\ out.value <=> WellFormedId(out.id)
        /\ out.id \in SectionIds(doc) => out.value

C11_Witness ==
    /\ pc = "validated"
    /\ out.id \in SectionIds(doc)
    /\ Len(doc.sections) = 3
    /\ out.value

\* C12: for every text t, serializeDocument(parseDocument(t)) is t, and
\* serializing the parse of that result gives the same text again.
C12_RoundTrip ==
    pc = "serialized" =>
        /\ out.text = file
        /\ out.again = out.text

C12_Witness ==
    /\ pc = "serialized"
    /\ doc.frontmatter # Null
    /\ Len(doc.sections) > 0
    /\ Len(doc.lines) >= 3
    /\ doc.lines[Len(doc.lines)] = <<>>
    /\ out.text = file

\* the first line, trimmed, is the delimiter
Opened(lines) == Trim(lines[1]) = Dashes

\* numbers of the later lines that, trimmed, are the delimiter
Closers(lines) == { n \in 2..Len(lines) : Trim(lines[n]) = Dashes }

FirstCloser(lines) ==
    CHOOSE n \in Closers(lines) : \A m \in Closers(lines) : n <= m

Recognised(lines) == Opened(lines) /\ Closers(lines) # {}

\* line n has the shape of a header and no fence line lies in from..(n - 1)
OpenHeader(lines, from, n) ==
    /\ MatchHeader(lines[n]).ok
    /\ ~FenceLine(lines[n])
    /\ \A m \in from..(n - 1) : ~FenceLine(lines[m])

\* C13: parseDocument recognises a frontmatter block exactly when the first
\* line, trimmed, is "---" and a later line, trimmed, is "---"; the block
\* then runs through the first such later line, no section has its header
\* inside it and the scan for headers resumes right after it; without a
\* closing delimiter frontmatter is null, frontmatterEndLine is 0 and the
\* scan starts at line 1, the leading "---" being ordinary content.
C13_Frontmatter ==
    Parsed =>
        LET lines == Split(file)
        IN  /\ doc.frontmatter # Null <=> Recognised(lines)
            /\ Recognised(lines) =>
                  LET close == FirstCloser(lines)
                  IN  /\ doc.frontmatter = Join(SubSeq(lines, 1, close))
                      /\ \A i \in 1..Len(doc.sections) :
                            doc.sections[i].line > close
                      /\ \A n \in (close + 1)..Len(lines) :
                            OpenHeader(lines, close + 1, n) =>
                                IsSectionLine(doc, n)
            /\ ~Recognised(lines) =>
                  /\ doc.frontmatter = Null
                  /\ doc.frontmatterEndLine = 0
                  /\ \A n \in 1..Len(lines) :
                        OpenHeader(lines, 1, n) => IsSectionLine(doc, n)

C13_Witness ==
    /\ pc = "parsed"
    /\ Opened(doc.lines)
    /\ doc.frontmatter = Null
    /\ IsSectionLine(doc, 2)
    /\ Len(doc.lines) >= 3

----------------------------------------------------------------------------
(* Properties of append, empty, search *)

\* the 0-indexed position at which append is to insert
AppendPosition(d) ==
    IF cmd.id = Null
    THEN IF cmd.before THEN d.frontmatterEndLine ELSE Len(d.lines)
    ELSE IF cmd.before THEN Target(d).line - 1
    ELSE TargetEnd(d, cmd.deep)

\* C15: append writes old[0..k) ++ new lines ++ old[k..), where the new
\* lines are the lines of the content, after one blank line or not, and k is
\* X.line - 1 (target id, before), endLine(doc, X, deep) (target id, after),
\* frontmatterEndLine (no id, before) or the number of lines (no id, after).
C15_AppendInsertion ==
    (Done("append") /\ out.kind = "ok") =>
        LET d == Before
            old == Split(prev)
            k == AppendPosition(d)
            content == Split(expandMagic(cmd.content, d))
            added == Len(written) - Len(old)
            new == SubSeq(written, k + 1, k + added)
        IN  /\ new \in {content, <<Blank>> \o content}
            /\ written = SubSeq(old, 1, k) \o new \o SubSeq(old, k + 1, Len(old))
            /\ file = Join(written)
            /\ out.linesAdded = added

C15_Witness ==
    /\ Done("append")
    /\ out.kind = "ok"
    /\ cmd.id = Null
    /\ cmd.before
    /\ Before.frontmatterEndLine = 3
    /\ cmd.content = LineNew
    /\ written[4] = LineNew
    /\ Len(written) = Len(Split(prev)) + 1

\* the content given to append, expanded and split into lines
AppendedContent(d) == Split(expandMagic(cmd.content, d))

\* number of the line of the result on which the first line of the content
\* stands: after the insertion position and the injected blank line, if any
FirstContentLine(d) ==
    AppendPosition(d) + 1
        + (Len(written) - Len(Split(prev)) - Len(AppendedContent(d)))

\* C16: when the content given to append begins with a header line, the
\* action is "created" and the id of the result is the id that parsing the
\* text after the insertion gives to the section whose header is the first
\* line of the content; otherwise the action is "appended".
C16_CreatedId ==
    (Done("append") /\ out.kind = "ok") =>
        LET d == Before
            after == parseDocument(file)
            S == { i \in 1..Len(after.sections) :
                     after.sections[i].line = FirstContentLine(d) }
        IN  IF MatchHeader(AppendedContent(d)[1]).ok
            THEN /\ out.action = "created"
                 /\ S # {}
                 /\ \A i \in S : out.id = after.sections[i].id
            ELSE out.action = "appended"

\* append of "## B\ny" after section A of "# A\nx": a blank line is put
\* before the content, the new header stands on line 4, and the id of the
\* result is the id of A, not the id of the new section
C16_Witness ==
    /\ Done("append")
    /\ out.kind = "ok"
    /\ prev = Join(<<H1A, LineX>>)
    /\ cmd.id = IdOfA
    /\ ~cmd.before
    /\ cmd.content = H2B \o <<NL, "y">>
    /\ file = Join(<<H1A, LineX, Blank, H2B, LineY>>)
    /\ out.action = "created"
    /\ out.id = IdOfA
    /\ out.id # sectionHash(2, <<"B">>, 0)
    /\ parseDocument(file).sections[2].id = sectionHash(2, <<"B">>, 0)

\* C17: empty keeps the header line of the section, removes the lines after
\* it through endLine(doc, X, deep), inserts none, reports linesAdded = 0 and
\* linesRemoved = endLine(doc, X, deep) - X.line, and writes the lines that
\* write with the empty content writes.
C17_EmptyIsWriteOfNothing ==
    (Done("empty") /\ out.kind = "ok") =>
        LET d == Before
            old == Split(prev)
            header == Target(d).line
            end == TargetEnd(d, cmd.deep)
        IN  /\ written = SubSeq(old, 1, header) \o SubSeq(old, end + 1, Len(old))
            /\ file = Join(written)
            /\ out.linesAdded = 0
            /\ out.linesRemoved = end - header
            /\ written = cmdWrite(prev, cmd.id, <<>>, cmd.deep).written

C17_Witness ==
    /\ Done("empty")
    /\ out.kind = "ok"
    /\ cmd.deep
    /\ TargetEnd(Before, TRUE) > TargetEnd(Before, FALSE)
    /\ TargetEnd(Before, TRUE) < Len(Split(prev))
    /\ out.linesRemoved >= 3

\* C18: setFrontmatter(doc, y). With y not blank and a frontmatter block,
\* the lines of the block are replaced by "---", the lines of trim(y),
\* "---"; with y not blank and no block, that block and one blank line are
\* put first; with y blank and a block, the lines of the block are removed,
\* frontmatter is null and frontmatterEndLine is 0.  In every case the lines
\* after the old block are kept, doc.sections is as before, and
\* getFrontmatterContent(doc) is trim(y) afterwards.
C18_SetFrontmatter ==
    pc = "frontmatterSet" =>
        LET old == parseDocument(file)
            t == Trim(cmd.content)
            block == <<Dashes>> \o Split(t) \o <<Dashes>>
            rest == SubSeq(old.lines, old.frontmatterEndLine + 1,
                           Len(old.lines))
        IN  /\ (t # <<>> /\ old.frontmatter # Null) =>
                  doc.lines = block \o rest
            /\ (t # <<>> /\ old.frontmatter = Null) =>
                  doc.lines = block \o <<Blank>> \o old.lines
            /\ (t = <<>> /\ old.frontmatter # Null) =>
                  /\ doc.lines = rest
                  /\ doc.frontmatter = Null
                  /\ doc.frontmatterEndLine = 0
            /\ Len(doc.lines) >= Len(rest)
            /\ SubSeq(doc.lines, Len(doc.lines) - Len(rest) + 1,
                      Len(doc.lines)) = rest
            /\ doc.sections = old.sections
            /\ out.content = t

C18_Witness ==
    /\ pc = "frontmatterSet"
    /\ parseDocument(file).frontmatter # Null
    /\ Len(doc.sections) > 0
    /\ Len(Split(Trim(cmd.content))) = 2
    /\ cmd.content # Trim(cmd.content)
    /\ doc.frontmatterEndLine = 4
    /\ out.content = Trim(cmd.content)

\* the pattern stands somewhere in the line
HasSubstring(line, pattern) ==
    \E a \in 1..(Len(line) + 1) :
        /\ a + Len(pattern) - 1 <= Len(line)
        /\ \A k \in 1..Len(pattern) : line[a + k - 1] = pattern[k]

\* the id of the section of d with the greatest header line <= n, Null
\* when no header line is <= n
SectionIdAt(d, n) ==
    LET H == { i \in 1..Len(d.sections) : d.sections[i].line <= n }
    IN  IF H = {} THEN Null
        ELSE d.sections[CHOOSE i \in H :
                          \A j \in H : d.sections[j].line
                                           <= d.sections[i].line].id

\* C19: search returns one match, in ascending line order, for exactly the
\* lines that contain the pattern; the match of line n names the section
\* with the greatest header line <= n, and no section exactly when n is
\* above the first header; so every line of s.line .. s.lineEnd is
\* attributed to s.
C19_Search ==
    Done("search") =>
        LET d == Before
            lines == Split(prev)
            m == out.matches
        IN  /\ out.kind = "ok"
            /\ \A i \in 1..(Len(m) - 1) : m[i].line < m[i + 1].line
            /\ { m[i].line : i \in 1..Len(m) } =
                   { n \in 1..Len(lines) : HasSubstring(lines[n], cmd.content) }
            /\ \A i \in 1..Len(m) :
                  /\ m[i].content = lines[m[i].line]
                  /\ m[i].sectionId = SectionIdAt(d, m[i].line)
                  /\ Len(d.sections) > 0 =>
                        (m[i].sectionId = Null
                            <=> m[i].line < d.sections[1].line)
                  /\ \A k \in 1..Len(d.sections) :
                        (/\ d.sections[k].line <= m[i].line
                         /\ m[i].line <= d.sections[k].lineEnd) =>
                            m[i].sectionId = d.sections[k].id

C19_Witness ==
    /\ Done("search")
    /\ cmd.content = <<"x">>
    /\ Len(Split(prev)) = 3
    /\ Len(out.matches) = 2
    /\ out.matches[1].sectionId = Null
    /\ out.matches[2].sectionId = IdOfA
    /\ out.matches[2].line = 3

----------------------------------------------------------------------------
(* Two invocations on one file *)

\* both invocations read the file before either wrote, and both wrote
BothReadFirst ==
    /\ pc = "race"
    /\ \A p \in RaceProcs :
          /\ procs[p].pc = "done"
          /\ procs[p].readAt = 0
          /\ procs[p].wroteAt > 0

LaterWriter == CHOOSE p \in RaceProcs : procs[p].wroteAt = 2
EarlierWriter == CHOOSE p \in RaceProcs : procs[p].wroteAt = 1

\* C20: when two mutating invocations both read the file before either
\* writes, the file after both is the result of the later writer's command
\* on the text read at the start, whatever the earlier writer wrote.
C20_LastWriteWins ==
    BothReadFirst =>
        file = RunCommand(procs[LaterWriter].cmd, prev).file

\* the earlier writer changed the file, and running the two commands one
\* after the other would have given another text
C20_Witness ==
    /\ BothReadFirst
    /\ RunCommand(procs[EarlierWriter].cmd, prev).file # prev
    /\ RunCommand(procs[EarlierWriter].cmd, prev).file # file
    /\ file # RunCommand(procs[LaterWriter].cmd,
                         RunCommand(procs[EarlierWriter].cmd, prev).file).file
    /\ procs[EarlierWriter].cmd.name = "write"
    /\ procs[LaterWriter].cmd.name = "append"

----------------------------------------------------------------------------
(* Spacing, line accounting and repeated commands *)

\* append injects a blank line: it is put after an existing line that is
\* not blank, and the content does not start with a blank line
AppendInjects(d) ==
    /\ ~cmd.before
    /\ AppendPosition(d) > 0
    /\ ~AllWhiteSpace(d.lines[AppendPosition(d)])
    /\ ~AllWhiteSpace(AppendedContent(d)[1])

OneBlankIf(b) == IF b THEN <<Blank>> ELSE <<>>

\* C21: append without before puts exactly one blank line in front of the
\* content iff the line before the insertion point exists and is not blank
\* and the first line of the content is not blank; with before it puts
\* none; linesAdded counts the blank line.
C21_AppendBlankLine ==
    (Done("append") /\ out.kind = "ok") =>
        LET d == Before
            k == AppendPosition(d)
            c == AppendedContent(d)
        IN  /\ written = SubSeq(d.lines, 1, k) \o OneBlankIf(AppendInjects(d))
                         \o c \o SubSeq(d.lines, k + 1, Len(d.lines))
            /\ out.linesAdded =
                   Len(c) + Len(OneBlankIf(AppendInjects(d)))
            /\ cmd.before => Len(written) = Len(d.lines) + Len(c)

C21_Witness ==
    /\ Done("append")
    /\ out.kind = "ok"
    /\ ~cmd.before
    /\ cmd.id # Null
    /\ AppendInjects(Before)
    /\ Len(AppendedContent(Before)) = 2
    /\ out.linesAdded = 3
    /\ written[AppendPosition(Before) + 1] = Blank

\* the content given to write, expanded; its lines, none when it is empty
WrittenContent(d) == expandMagic(cmd.content, d)

ContentLines(c) == IF c = <<>> THEN <<>> ELSE Split(c)

\* the lines of the written array between the header of the target and the
\* lines kept after the section
InsertedLines(d) ==
    SubSeq(written, Target(d).line + 1,
           Len(written) - (Len(d.lines) - TargetEnd(d, cmd.deep)))

\* C22: write puts a blank line in front of the content iff the content is
\* not empty and its first line is not blank; after a write of content that
\* is not empty the line after the header is blank, and a write of empty
\* content inserts no line.
C22_WriteBlankLine ==
    (Done("write") /\ out.kind = "ok") =>
        LET d == Before
            c == WrittenContent(d)
            lead == c # <<>> /\ ~AllWhiteSpace(ContentLines(c)[1])
        IN  /\ InsertedLines(d) = OneBlankIf(lead) \o ContentLines(c)
            /\ c # <<>> => AllWhiteSpace(written[Target(d).line + 1])
            /\ c = <<>> =>
                  /\ InsertedLines(d) = <<>>
                  /\ out.linesAdded = 0

C22_Witness ==
    /\ Done("write")
    /\ out.kind = "ok"
    /\ cmd.content = <<NL, "x">>
    /\ InsertedLines(Before) = <<Blank, LineX>>
    /\ TargetEnd(Before, cmd.deep) > Target(Before).line
    /\ TargetEnd(Before, cmd.deep) < Len(Before.lines)

Mutation == cmd.name \in {"write", "append", "empty", "remove"}

\* C23: after write, append, empty and remove the line array has as many
\* lines as before plus linesAdded minus linesRemoved; linesRemoved is
\* endLine - X.line for write and empty, endLine(deep) - X.line + 1 for
\* remove and 0 for append; linesAdded counts the injected blank line;
\* write reports lineStart = X.line and lineEnd = X.line + linesAdded.
C23_LineAccounting ==
    (pc = "done" /\ Mutation /\ out.kind = "ok") =>
        LET d == Before
        IN  /\ Len(written) =
                   Len(d.lines) + out.linesAdded - out.linesRemoved
            /\ cmd.name \in {"write", "empty"} =>
                  out.linesRemoved = TargetEnd(d, cmd.deep) - Target(d).line
            /\ cmd.name = "remove" =>
                  /\ out.linesRemoved = TargetEnd(d, TRUE) - Target(d).line + 1
                  /\ out.linesAdded = 0
            /\ cmd.name = "empty" => out.linesAdded = 0
            /\ cmd.name = "append" =>
                  /\ out.linesRemoved = 0
                  /\ out.linesAdded =
                         Len(AppendedContent(d))
                         + Len(OneBlankIf(AppendInjects(d)))
            /\ cmd.name = "write" =>
                  /\ out.linesAdded = Len(InsertedLines(d))
                  /\ out.lineStart = Target(d).line
                  /\ out.lineEnd = Target(d).line + out.linesAdded

C23_Witness ==
    /\ Done("remove")
    /\ out.kind = "ok"
    /\ TargetEnd(Before, TRUE) > TargetEnd(Before, FALSE)
    /\ out.linesRemoved = 6
    /\ Len(written) = 1

PlainContent(c) ==
    \A i \in 1..Len(ContentLines(c)) :
        /\ ~MatchHeader(ContentLines(c)[i]).ok
        /\ ~FenceLine(ContentLines(c)[i])

EndsBlank(c) ==
    c # <<>> /\ AllWhiteSpace(ContentLines(c)[Len(ContentLines(c))])

\* a header follows the range of lines the write replaces
HeaderFollows(d) == IsSectionLine(d, TargetEnd(d, cmd.deep) + 1)

HashesThenWhiteSpace(line) ==
    \E k \in 1..Len(line) :
        /\ \A i \in 1..k : line[i] = "#"
        /\ \A i \in (k + 1)..Len(line) : line[i] \in WhiteSpace

\* C25: every section returned by parseDocument has a level in 1..6 and a
\* title that is not empty, and a line made of '#' characters followed by
\* white space only is not the header of a section.
C25_NonEmptyTitle ==
    Parsed =>
        /\ \A i \in 1..Len(doc.sections) :
              /\ doc.sections[i].level \in 1..6
              /\ doc.sections[i].title # <<>>
        /\ \A n \in 1..Len(doc.lines) :
              HashesThenWhiteSpace(doc.lines[n]) => ~IsSectionLine(doc, n)

\* the line "#  " has become a section of level 1 with the empty title
C25_Witness ==
    /\ pc = "parsed"
    /\ doc.lines = <<H1Empty>>
    /\ Len(doc.sections) = 1
    /\ doc.sections[1].level = 1
    /\ doc.sections[1].title = <<>>
    /\ doc.sections[1].id = sectionHash(1, <<>>, 0)

\* C26 as stated: after a remove that succeeded no section of the file
\* carries the id of the removed section, and a read, write, empty or
\* remove with that id fails with section_not_found.
C26_RemovedIdGone ==
    /\ (Done("remove") /\ out.kind = "ok") =>
          cmd.id \notin SectionIds(parseDocument(file))
    /\ pc = "afterRemove" =>
          /\ out.kind = "error"
          /\ out.code = "section_not_found"

\* a section after the target has its level and its normalized title
LaterAlike(d) ==
    \E j \in (findSection(d, cmd.id) + 1)..Len(d.sections) :
        /\ d.sections[j].level = Target(d).level
        /\ NormalTitle(d.sections[j].title) = NormalTitle(Target(d).title)

\* C26, amended: after a remove that succeeded a section of the file
\* carries the id of the removed section exactly when a later section had
\* its level and normalized title; a read, write, empty or remove with that
\* id then acts on that section, and fails with section_not_found
\* otherwise.
C26_RemovedIdTakenOver ==
    /\ (Done("remove") /\ out.kind = "ok") =>
          (cmd.id \in SectionIds(parseDocument(file)) <=> LaterAlike(Before))
    /\ pc = "afterRemove" =>
          IF cmd.id \in SectionIds(Before)
          THEN /\ out.kind = "ok"
               /\ out.id = cmd.id
          ELSE /\ out.kind = "error"
               /\ out.code = "section_not_found"
               /\ file = prev

C26_Witness ==
    /\ pc = "afterRemove"
    /\ cmd.name = "remove"
    /\ prev = Join(<<H1Title>>)
    /\ out.kind = "ok"
    /\ out.linesRemoved = 1
    /\ file = <<>>

\* C27: when write, append with a target id, empty or remove fails with
\* invalid_id or section_not_found, writeFile is not called and the file
\* is what it was before the call.
C27_FailureWritesNothing ==
    (/\ pc = "done"
     /\ Mutation
     /\ cmd.id # Null
     /\ out.kind = "error") =>
        /\ out.code \in {"invalid_id", "section_not_found"}
        /\ written = NotWritten
        /\ file = prev

C27_Witness ==
    /\ Done("append")
    /\ cmd.id = UpperCaseId
    /\ cmd.before
    /\ out.kind = "error"
    /\ out.code = "section_not_found"
    /\ Len(parseDocument(prev).sections) = 3
    /\ file = prev

\* a shallow write, a shallow empty or an append with a target id that
\* succeeded
ShallowEdit ==
    /\ pc = "done"
    /\ out.kind = "ok"
    /\ cmd.id # Null
    /\ \/ cmd.name \in {"write", "empty"} /\ ~cmd.deep
       \/ cmd.name = "append"

\* number of the last line before the lines the command changed
EditPoint(d) ==
    IF cmd.name = "append" THEN AppendPosition(d) ELSE Target(d).line

\* the sections of a are those of d with their id, level and title, with
\* their line when it is at most k and with their line plus shift when not
SameSections(d, a, k, shift) ==
    /\ Len(a.sections) = Len(d.sections)
    /\ \A i \in 1..Len(d.sections) :
          /\ a.sections[i].id = d.sections[i].id
          /\ a.sections[i].level = d.sections[i].level
          /\ a.sections[i].title = d.sections[i].title
          /\ a.sections[i].line =
                 IF d.sections[i].line > k THEN d.sections[i].line + shift
                 ELSE d.sections[i].line

\* C28 as stated: a shallow write, a shallow empty or an append with a
\* target id, of content without header line and without fence line, keeps
\* the sections with their id, level and title; those before the edit point
\* keep their line and those after it move by linesAdded - linesRemoved.
C28_SectionsKept ==
    (ShallowEdit /\ PlainContent(WrittenContent(Before))) =>
        SameSections(Before, parseDocument(file), EditPoint(Before),
                     out.linesAdded - out.linesRemoved)

\* no line of the content is a frontmatter delimiter
NoDelimiter(c) ==
    \A i \in 1..Len(ContentLines(c)) : Trim(ContentLines(c)[i]) # Dashes

\* C28, amended: the same, for content that has no frontmatter delimiter
\* line either.
C28_SectionsKeptWithoutDelimiter ==
    (/\ ShallowEdit
     /\ PlainContent(WrittenContent(Before))
     /\ NoDelimiter(WrittenContent(Before))) =>
        SameSections(Before, parseDocument(file), EditPoint(Before),
                     out.linesAdded - out.linesRemoved)

C28_Witness ==
    /\ Done("empty")
    /\ out.kind = "ok"
    /\ ~cmd.deep
    /\ prev = Join(ExampleNested)
    /\ cmd.id = IdOfA
    /\ Len(parseDocument(file).sections) = 3
    /\ parseDocument(file).sections[2].line = 2
    /\ parseDocument(file).sections[3].line = 5
    /\ out.linesAdded - out.linesRemoved = -2

\* the end line of the i-th section of the parsed document
EndLine(i, deep) == getSectionEndLine(doc, doc.sections[i], deep)

\* C29: the deep end line of a section is at least its shallow end line,
\* and equal to it when the section is the last one or the next section
\* has the same or a lower level; the deep ranges are nested: a later
\* section starts after the deep end of an earlier one, or its deep range
\* ends within it.
C29_DeepRangesNested ==
    Parsed =>
        LET s == doc.sections
        IN  /\ \A i \in 1..Len(s) :
                  /\ EndLine(i, TRUE) >= EndLine(i, FALSE)
                  /\ (i = Len(s) \/ s[i + 1].level <= s[i].level) =>
                        EndLine(i, TRUE) = EndLine(i, FALSE)
            /\ \A i \in 1..Len(s) : \A j \in (i + 1)..Len(s) :
                  \/ s[j].line > EndLine(i, TRUE)
                  \/ EndLine(j, TRUE) <= EndLine(i, TRUE)

C29_Witness ==
    /\ pc = "parsed"
    /\ Len(doc.sections) = 3
    /\ doc.sections[1].level = 1
    /\ doc.sections[2].level = 2
    /\ doc.sections[3].level = 1
    /\ EndLine(1, TRUE) > EndLine(1, FALSE)
    /\ EndLine(2, TRUE) = EndLine(1, TRUE)
    /\ EndLine(2, TRUE) = EndLine(2, FALSE)
    /\ EndLine(3, TRUE) = Len(doc.lines)

\* the content is not empty, has no header line and no fence line, and its
\* first and last lines are not blank
ReadableContent(c) ==
    /\ c # <<>>
    /\ PlainContent(c)
    /\ ~AllWhiteSpace(ContentLines(c)[1])
    /\ ~AllWhiteSpace(ContentLines(c)[Len(ContentLines(c))])

\* the section of a with the id of the target has the level, title and
\* line the target has in d
TargetKept(d, a) ==
    /\ findSection(a, cmd.id) # 0
    /\ a.sections[findSection(a, cmd.id)].level = Target(d).level
    /\ a.sections[findSection(a, cmd.id)].title = Target(d).title
    /\ a.sections[findSection(a, cmd.id)].line = Target(d).line

\* the shallow read after a shallow write returned a blank line and c
ReadBack(c) ==
    /\ out.kind = "ok"
    /\ out.id = cmd.id
    /\ out.content = <<NL>> \o c

\* C30 as stated: after a shallow write of content that is not empty, has
\* no header line and no fence line and has first and last lines that are
\* not blank, the file has the section with its id, level, title and header
\* line, and a shallow read of it returns one blank line followed by the
\* content.
C30_ReadAfterWrite ==
    /\ (Done("write") /\ out.kind = "ok" /\ ~cmd.deep
        /\ ReadableContent(WrittenContent(Before))) =>
          TargetKept(Before, parseDocument(file))
    /\ (pc = "readAgain" /\ ~cmd.deep
        /\ ReadableContent(WrittenContent(Before))) =>
          ReadBack(WrittenContent(Before))

\* C30, amended: the same, for content that has no frontmatter delimiter
\* line either.
C30_ReadAfterWriteWithoutDelimiter ==
    /\ (Done("write") /\ out.kind = "ok" /\ ~cmd.deep
        /\ ReadableContent(WrittenContent(Before))
        /\ NoDelimiter(WrittenContent(Before))) =>
          TargetKept(Before, parseDocument(file))
    /\ (pc = "readAgain" /\ ~cmd.deep
        /\ ReadableContent(WrittenContent(Before))
        /\ NoDelimiter(WrittenContent(Before))) =>
          ReadBack(WrittenContent(Before))

C30_Witness ==
    /\ pc = "readAgain"
    /\ ~cmd.deep
    /\ cmd.content = ContentXY
    /\ prev = Join(<<H1A, Blank, LineX, LineY, H1B, LineKeep>>)
    /\ out.content = <<NL, "x", NL, "y">>

====
